---------------------------- MODULE Spec2Model ----------------------------
(***************************************************************************)
(* A model of the sec-poc TLS 1.3 client: the record cryptography of       *)
(* enc-dec.rs, the key schedule of key-schedule.rs and the handshake       *)
(* driver of main.rs.                                                      *)
(*                                                                         *)
(* Byte strings that the program only compares or hashes (secrets, keys,   *)
(* messages, digests) are symbolic terms: tuples whose first element is a  *)
(* tag.  The IV and the sequence number, which derive_nonce combines       *)
(* bytewise, are concrete bytes.                                           *)
(***************************************************************************)
EXTENDS Integers, Sequences, FiniteSets, TLC

(***************************************************************************)
(* Bounds of the model.                                                    *)
(***************************************************************************)
\* Width, in bits, of the model's read_seq_num / write_seq_num (u64 in the
\* program): the counters live in 0 .. 2^SeqBits - 1.
SeqBits == 2

\* Largest number of record-padding zero bytes a peer puts in a record.
MaxPad == 1

\* Largest number of encrypt (decrypt) calls made on a schedule whose write
\* (read) key is still empty, in the specification of arbitrary call
\* sequences.
MaxEarlyCalls == 1

(***************************************************************************)
(* Program constants.                                                      *)
(***************************************************************************)
NonceLen == 12
SeqNumBytes == 8
NonceSeqOffset == 4
TagLen == 16

(***************************************************************************)
(* Bytes.                                                                  *)
(***************************************************************************)
Byte == 0 .. 255

RECURSIVE Pow2(_)
Pow2(n) == IF n = 0 THEN 1 ELSE 2 * Pow2(n - 1)

\* a ^ b on the low n bits (Rust's ^= on u8 with n = 8).
RECURSIVE XorBits(_, _, _)
XorBits(a, b, n) ==
    IF n = 0 THEN 0
    ELSE (((a % 2) + (b % 2)) % 2) + 2 * XorBits(a \div 2, b \div 2, n - 1)

\* The XOR of two nibbles, tabulated once.
XorNibble[a \in 0 .. 15, b \in 0 .. 15] == XorBits(a, b, 4)

XorByte(a, b) == 16 * XorNibble[a \div 16, b \div 16] + XorNibble[a % 16, b % 16]

\* u64::to_be_bytes, most significant byte first, as k bytes.
RECURSIVE BeBytes(_, _)
BeBytes(n, k) ==
    IF k = 0 THEN << >> ELSE Append(BeBytes(n \div 256, k - 1), n % 256)

to_be_bytes(seq_num) == BeBytes(seq_num, SeqNumBytes)

\* A mutant of derive_nonce: the sequence number little-endian.
derive_nonce_le(iv, seq_num) ==
    LET be == to_be_bytes(seq_num)
        nonce1 == [i \in 1 .. NonceLen |->
                     IF i > NonceSeqOffset
                     THEN be[SeqNumBytes + 1 - (i - NonceSeqOffset)] ELSE 0]
    IN  [i \in 1 .. NonceLen |->
           IF i <= Len(iv) THEN XorByte(nonce1[i], iv[i]) ELSE nonce1[i]]

\* A mutant of derive_nonce: the sequence number is left out of the nonce.
derive_nonce_noseq(iv, seq_num) ==
    [i \in 1 .. NonceLen |-> IF i <= Len(iv) THEN iv[i] ELSE 0]

\* enc-dec.rs derive_nonce: twelve zero bytes, the big-endian sequence number
\* copied into nonce[4..], then each byte XORed with the IV byte zipped to it
\* (zip stops at the shorter of the two, so an empty IV changes nothing).
derive_nonce(iv, seq_num) ==
    LET be == to_be_bytes(seq_num)
        nonce0 == [i \in 1 .. NonceLen |-> 0]
        nonce1 == [i \in 1 .. NonceLen |->
                     IF i > NonceSeqOffset THEN be[i - NonceSeqOffset]
                     ELSE nonce0[i]]
    IN  [i \in 1 .. NonceLen |->
           IF i <= Len(iv) THEN XorByte(nonce1[i], iv[i]) ELSE nonce1[i]]

(***************************************************************************)
(* Symbolic byte strings.                                                  *)
(***************************************************************************)
Empty == << >>

\* Vec::extend_from_slice on a symbolic byte string.
Concat(a, b) == IF a = Empty THEN b ELSE <<"cat", a, b>>

\* [0u8; 32]
Zeros32 == <<"zeros", 32>>

\* SHA-256 of the bytes fed to a digest context, kept as the token sequence.
Sha256(data) == <<"sha256", data>>

\* ring::hmac::sign(Key::new(HMAC_SHA256, key), msg)
HmacSha256(key, msg) == <<"hmac", key, msg>>

\* key-schedule.rs HkdfLabel::new
HkdfLabel(length, label, context) ==
    [length |-> length, label |-> label, context |-> context]

\* key-schedule.rs HKDF::extract(shared_secret, salt)
HkdfExtract(shared_secret, salt) == <<"extract", shared_secret, salt>>

\* key-schedule.rs HKDF::new(secret): the secret used as the PRK as it is.
HkdfNew(secret) == <<"prk", secret>>

\* key-schedule.rs HKDF::expand_label: label.length bytes of HKDF-Expand of
\* the PRK with the encoded label as info.
expand_label(prk, label) ==
    <<"okm", prk, label.length, label.label, label.context>>

\* key-schedule.rs HKDF::derive_empty_secret
derive_empty_secret ==
    expand_label(HkdfExtract(Zeros32, Zeros32),
                 HkdfLabel(32, "derived", Sha256(Empty)))

\* X25519 agreement of the schedule's ephemeral private key with a peer
\* public key.
X25519(server_pub) == <<"x25519", server_pub>>

\* The peer public keys a ServerHello key_share may carry: one on which
\* agree_ephemeral succeeds and one on which it returns an error.
GoodPub == <<"pub", "server">>
BadPub == <<"pub", "invalid">>
ServerPubs == {GoodPub, BadPub}

(***************************************************************************)
(* Record bytes as tokens.  A token stands for a run of bytes:             *)
(*   <<"hs", type, body, len>>   one handshake message of len bytes        *)
(*   <<"ctype", n>>              the inner content-type byte               *)
(*   <<"pad", 0>>                one zero byte of record padding           *)
(*   <<"ct", key, nonce, pt, flip>>                 AEAD ciphertext        *)
(*   <<"tag", key, nonce, aad, pt, flip>>           the 16-byte AEAD tag   *)
(*   <<"junk", n>>               n bytes that are no valid encoding        *)
(*   <<"raw", bytes>>            32 raw bytes (a verify_data value)        *)
(*   <<"part", tok, n>>          the first n bytes of token tok            *)
(*   <<"ccs", 1>>                the change_cipher_spec byte               *)
(***************************************************************************)
RECURSIVE ByteLen(_)
\* The byte length given to a DER certificate.
CertLen == 900

\* A public key so large that the DER certificate carrying it has
\* BigCertLen bytes, more than a u16 holds.
BigKey == <<"rsa", "big">>
BigCertLen == 66000

TokLen(tok) ==
    CASE tok[1] = "hs" -> tok[4]
      [] tok[1] = "ctype" -> 1
      [] tok[1] = "pad" -> 1
      [] tok[1] = "ct" -> ByteLen(tok[4])
      [] tok[1] = "tag" -> TagLen
      [] tok[1] = "junk" -> tok[2]
      [] tok[1] = "raw" -> 32
      [] tok[1] = "part" -> tok[3]
      [] tok[1] = "ccs" -> 1
      [] tok[1] = "csr" -> tok[4]
      [] tok[1] = "x509" -> IF tok[4] = BigKey THEN BigCertLen ELSE CertLen
      [] tok[1] = "be" -> tok[3]

ByteLen(toks) ==
    IF toks = << >> THEN 0 ELSE TokLen(Head(toks)) + ByteLen(Tail(toks))

\* &buf[..n]
RECURSIVE TakeBytes(_, _)
TakeBytes(toks, n) ==
    IF n = 0 \/ toks = << >> THEN << >>
    ELSE IF TokLen(Head(toks)) <= n
         THEN <<Head(toks)>> \o TakeBytes(Tail(toks), n - TokLen(Head(toks)))
         ELSE << <<"part", Head(toks), n>> >>

\* &buf[n..] when n falls on a token boundary; the rest of a split token is
\* junk.
RECURSIVE DropBytes(_, _)
DropBytes(toks, n) ==
    IF n = 0 \/ toks = << >> THEN toks
    ELSE IF TokLen(Head(toks)) <= n
         THEN DropBytes(Tail(toks), n - TokLen(Head(toks)))
         ELSE << <<"junk", TokLen(Head(toks)) - n>> >> \o Tail(toks)

(***************************************************************************)
(* AES-128-GCM of ring, symbolically: the ciphertext is bound to key,      *)
(* nonce and plaintext, the tag to key, nonce, associated data and         *)
(* plaintext.  flip = 1 marks a token with a bit flipped in transit.       *)
(***************************************************************************)
SealCt(key, nonce, pt) == <<"ct", key, nonce, pt, 0>>
SealTag(key, nonce, aad, pt) == <<"tag", key, nonce, aad, pt, 0>>

\* LessSafeKey::open_in_place on a buffer: TRUE when the buffer is a
\* ciphertext followed by its tag, sealed under this key, nonce and aad.
OpenOk(key, nonce, aad, buf) ==
    /\ Len(buf) = 2
    /\ buf[1][1] = "ct"
    /\ buf[2][1] = "tag"
    /\ buf[1] = SealCt(key, nonce, buf[1][4])
    /\ buf[2] = SealTag(key, nonce, aad, buf[1][4])

\* The buffer after a successful open_in_place: the plaintext, then the 16
\* bytes of the tag, which stay where they were.
OpenedBuf(buf) == buf[1][4] \o <<buf[2]>>

(***************************************************************************)
(* The bytes of an IV.  HKDF output is a fixed function of its inputs; the *)
(* model keeps that function as an oracle, orc, from the IV terms derived  *)
(* the schedule holds to 12-byte strings of IvSet.                          *)
(***************************************************************************)
IvA == <<0, 1, 2, 3, 4, 5, 6, 7, 8, 9, 10, 11>>
IvB == <<255, 254, 253, 252, 251, 250, 249, 248, 247, 246, 245, 244>>
IvSet == {IvA, IvB}

IvBytes(orc, iv) == IF iv = Empty THEN << >> ELSE orc[iv]

\* The oracles for the terms ts that agree with orc where orc is defined.
OracleExt(orc, ts) ==
    { f \in [ts -> IvSet] : \A t \in DOMAIN orc \cap ts : f[t] = orc[t] }

(***************************************************************************)
(* The key schedules.  One record type carries both structs: kind says     *)
(* which one it is, and an ApplicationKeySchedule leaves the fields it     *)
(* does not have empty.                                                    *)
(***************************************************************************)
SeqMax == Pow2(SeqBits) - 1

ClientPub == <<"pub", "client">>

\* key-schedule.rs HandshakeKeySchedule::new
HandshakeKeySchedule_new ==
    [kind |-> "handshake",
     transcript |-> << >>,
     handshake_secret |-> Empty,
     master_secret |-> HkdfExtract(Zeros32, Zeros32),
     server_handshake_traffic_secret |-> Empty,
     client_handshake_traffic_secret |-> Empty,
     client_write_key |-> Empty,
     client_write_iv |-> Empty,
     server_write_key |-> Empty,
     server_write_iv |-> Empty,
     my_private_key |-> TRUE,
     my_public_key |-> ClientPub,
     server_application_traffic_secret |-> Empty,
     client_application_traffic_secret |-> Empty,
     read_seq_num |-> 0,
     write_seq_num |-> 0]

\* enc-dec.rs add_transcript
add_transcript(k, data) == [k EXCEPT !.transcript = @ \o data]

\* transcript_hash_context.clone().finish()
transcript_hash(k) == Sha256(k.transcript)

\* key-schedule.rs derive_server_handshake_traffic_secret
derive_server_handshake_traffic_secret(k) ==
    LET hkdf == HkdfExtract(k.handshake_secret, derive_empty_secret)
        label == HkdfLabel(32, "s hs traffic", transcript_hash(k))
    IN  [k EXCEPT !.server_handshake_traffic_secret = expand_label(hkdf, label),
                  !.master_secret = hkdf]

\* A mutant of derive_client_handshake_traffic_secret: the label's context is
\* the hash of no message.
derive_client_handshake_traffic_secret_nohash(k) ==
    LET hkdf == HkdfExtract(k.handshake_secret, derive_empty_secret)
        label == HkdfLabel(32, "c hs traffic", Sha256(Empty))
    IN  [k EXCEPT !.client_handshake_traffic_secret = expand_label(hkdf, label)]

\* key-schedule.rs derive_client_handshake_traffic_secret
derive_client_handshake_traffic_secret(k) ==
    LET hkdf == HkdfExtract(k.handshake_secret, derive_empty_secret)
        label == HkdfLabel(32, "c hs traffic", transcript_hash(k))
    IN  [k EXCEPT !.client_handshake_traffic_secret = expand_label(hkdf, label)]

\* key-schedule.rs derive_server_write_key_and_iv
derive_server_write_key_and_iv(k) ==
    LET hkdf == HkdfNew(k.server_handshake_traffic_secret)
    IN  [k EXCEPT !.server_write_key = expand_label(hkdf, HkdfLabel(16, "key", Empty)),
                  !.server_write_iv = expand_label(hkdf, HkdfLabel(12, "iv", Empty))]

\* key-schedule.rs derive_client_write_key_and_iv
derive_client_write_key_and_iv(k) ==
    LET hkdf == HkdfNew(k.client_handshake_traffic_secret)
    IN  [k EXCEPT !.client_write_key = expand_label(hkdf, HkdfLabel(16, "key", Empty)),
                  !.client_write_iv = expand_label(hkdf, HkdfLabel(12, "iv", Empty))]

\* A mutant of update_handshake_secret: the private key is borrowed, not
\* taken, so a second call agrees again.
update_handshake_secret_keep(k, server_pub) ==
    IF server_pub = BadPub
    THEN [res |-> "err", ks |-> k, agreed |-> TRUE]
    ELSE [res |-> "ok",
          ks |-> derive_client_write_key_and_iv(
                   derive_server_write_key_and_iv(
                     derive_client_handshake_traffic_secret(
                       derive_server_handshake_traffic_secret(
                         [k EXCEPT !.handshake_secret =
                                     Concat(@, X25519(server_pub))])))),
          agreed |-> TRUE]

\* A mutant of update_handshake_secret: the agreement's error is returned
\* only after the secrets and keys were derived.
update_handshake_secret_late(k, server_pub) ==
    IF ~k.my_private_key
    THEN [res |-> "panic", ks |-> k, agreed |-> FALSE]
    ELSE LET k0 == [k EXCEPT !.my_private_key = FALSE]
             k1 == derive_client_write_key_and_iv(
                     derive_server_write_key_and_iv(
                       derive_client_handshake_traffic_secret(
                         derive_server_handshake_traffic_secret(
                           IF server_pub = BadPub THEN k0
                           ELSE [k0 EXCEPT !.handshake_secret =
                                             Concat(@, X25519(server_pub))]))))
         IN  [res |-> IF server_pub = BadPub THEN "err" ELSE "ok",
              ks |-> k1, agreed |-> TRUE]

\* key-schedule.rs update_handshake_secret.  take().unwrap() panics when the
\* private key is gone; agree_ephemeral consumes the key and, on a bad peer
\* key, returns the error without calling the closure.  agreed says whether
\* the private key went into an X25519 agreement.
update_handshake_secret(k, server_pub) ==
    IF ~k.my_private_key
    THEN [res |-> "panic", ks |-> k, agreed |-> FALSE]
    ELSE LET k0 == [k EXCEPT !.my_private_key = FALSE]
         IN  IF server_pub = BadPub
             THEN [res |-> "err", ks |-> k0, agreed |-> TRUE]
             ELSE [res |-> "ok",
                   ks |-> derive_client_write_key_and_iv(
                            derive_server_write_key_and_iv(
                              derive_client_handshake_traffic_secret(
                                derive_server_handshake_traffic_secret(
                                  [k0 EXCEPT !.handshake_secret =
                                               Concat(@, X25519(server_pub))])))),
                   agreed |-> TRUE]

\* key-schedule.rs on_server_finished / derive_master_secret_and_traffic_secrets
on_server_finished(k) ==
    LET derived_secret ==
            expand_label(k.master_secret, HkdfLabel(32, "derived", Sha256(Empty)))
        th == transcript_hash(k)
        hkdf == HkdfExtract(Zeros32, derived_secret)
    IN  [k EXCEPT
           !.server_application_traffic_secret =
               expand_label(hkdf, HkdfLabel(32, "s ap traffic", th)),
           !.client_application_traffic_secret =
               expand_label(hkdf, HkdfLabel(32, "c ap traffic", th)),
           !.master_secret = hkdf]

\* A mutant of into_application_key_schedule: the application keys and IVs
\* are expanded from the handshake traffic secrets.
into_application_key_schedule_hs(k) ==
    LET hkdf_for_app_write == HkdfNew(k.client_handshake_traffic_secret)
        hkdf_for_app_read == HkdfNew(k.server_handshake_traffic_secret)
    IN  [kind |-> "application",
         transcript |-> k.transcript,
         handshake_secret |-> Empty,
         master_secret |-> Empty,
         server_handshake_traffic_secret |-> Empty,
         client_handshake_traffic_secret |-> Empty,
         client_write_key |-> expand_label(hkdf_for_app_write, HkdfLabel(16, "key", Empty)),
         client_write_iv |-> expand_label(hkdf_for_app_write, HkdfLabel(12, "iv", Empty)),
         server_write_key |-> expand_label(hkdf_for_app_read, HkdfLabel(16, "key", Empty)),
         server_write_iv |-> expand_label(hkdf_for_app_read, HkdfLabel(12, "iv", Empty)),
         my_private_key |-> FALSE,
         my_public_key |-> Empty,
         server_application_traffic_secret |-> k.server_application_traffic_secret,
         client_application_traffic_secret |-> k.client_application_traffic_secret,
         read_seq_num |-> 0,
         write_seq_num |-> 0]

\* A mutant of into_application_key_schedule: the sequence counters are
\* carried over from the handshake schedule.
into_application_key_schedule_keepseq(k) ==
    LET hkdf_for_app_write == HkdfNew(k.client_application_traffic_secret)
        hkdf_for_app_read == HkdfNew(k.server_application_traffic_secret)
    IN  [kind |-> "application",
         transcript |-> k.transcript,
         handshake_secret |-> Empty,
         master_secret |-> Empty,
         server_handshake_traffic_secret |-> Empty,
         client_handshake_traffic_secret |-> Empty,
         client_write_key |-> expand_label(hkdf_for_app_write, HkdfLabel(16, "key", Empty)),
         client_write_iv |-> expand_label(hkdf_for_app_write, HkdfLabel(12, "iv", Empty)),
         server_write_key |-> expand_label(hkdf_for_app_read, HkdfLabel(16, "key", Empty)),
         server_write_iv |-> expand_label(hkdf_for_app_read, HkdfLabel(12, "iv", Empty)),
         my_private_key |-> FALSE,
         my_public_key |-> Empty,
         server_application_traffic_secret |-> k.server_application_traffic_secret,
         client_application_traffic_secret |-> k.client_application_traffic_secret,
         read_seq_num |-> k.read_seq_num,
         write_seq_num |-> k.write_seq_num]

\* key-schedule.rs into_application_key_schedule: the handshake schedule is
\* moved into an ApplicationKeySchedule.
into_application_key_schedule(k) ==
    LET hkdf_for_app_write == HkdfNew(k.client_application_traffic_secret)
        hkdf_for_app_read == HkdfNew(k.server_application_traffic_secret)
    IN  [kind |-> "application",
         transcript |-> k.transcript,
         handshake_secret |-> Empty,
         master_secret |-> Empty,
         server_handshake_traffic_secret |-> Empty,
         client_handshake_traffic_secret |-> Empty,
         client_write_key |-> expand_label(hkdf_for_app_write, HkdfLabel(16, "key", Empty)),
         client_write_iv |-> expand_label(hkdf_for_app_write, HkdfLabel(12, "iv", Empty)),
         server_write_key |-> expand_label(hkdf_for_app_read, HkdfLabel(16, "key", Empty)),
         server_write_iv |-> expand_label(hkdf_for_app_read, HkdfLabel(12, "iv", Empty)),
         my_private_key |-> FALSE,
         my_public_key |-> Empty,
         server_application_traffic_secret |-> k.server_application_traffic_secret,
         client_application_traffic_secret |-> k.client_application_traffic_secret,
         read_seq_num |-> 0,
         write_seq_num |-> 0]

\* enc-dec.rs client_traffic_secret, for either schedule
client_traffic_secret(k) ==
    IF k.kind = "handshake" THEN k.client_handshake_traffic_secret
    ELSE k.client_application_traffic_secret

\* A mutant of get_verify_client_data: the finished key is expanded from the
\* server's handshake traffic secret.
get_verify_client_data_server(k) ==
    LET digest == transcript_hash(k)
        finished_key == expand_label(HkdfNew(k.server_handshake_traffic_secret),
                                     HkdfLabel(32, "finished", Empty))
    IN  HmacSha256(finished_key, digest)

\* enc-dec.rs get_verify_client_data
get_verify_client_data(k) ==
    LET digest == transcript_hash(k)
        finished_key == expand_label(HkdfNew(client_traffic_secret(k)),
                                     HkdfLabel(32, "finished", Empty))
    IN  HmacSha256(finished_key, digest)

(***************************************************************************)
(* Sequence counters.  `self.read_seq_num += 1` on a u64 at its maximum    *)
(* panics in a build with overflow checks and wraps to 0 in one without:   *)
(* bld is "checked" or "wrapping".                                         *)
(***************************************************************************)
Builds == {"checked", "wrapping"}

IncrPanics(n, bld) == n = SeqMax /\ bld = "checked"
Incr(n) == (n + 1) % Pow2(SeqBits)

\* A mutant of decrypt_tls_encrypted: the nonce is derived from the counter
\* after its increment.
decrypt_tls_encrypted_postincr(k, orc, bld, hdr_buf, buf) ==
    LET seq_num == k.read_seq_num
        k1 == [k EXCEPT !.read_seq_num = Incr(seq_num)]
        nonce == derive_nonce(IvBytes(orc, k.server_write_iv), k1.read_seq_num)
    IN  IF IncrPanics(seq_num, bld)
        THEN [res |-> "panic", ks |-> k, plain |-> Empty, buf |-> buf,
              aead |-> FALSE, nonce |-> nonce]
        ELSE IF k.server_write_key = Empty
        THEN [res |-> "err", ks |-> k1, plain |-> Empty, buf |-> buf,
              aead |-> FALSE, nonce |-> nonce]
        ELSE IF OpenOk(k.server_write_key, nonce, hdr_buf, buf)
        THEN [res |-> "ok", ks |-> k1, plain |-> buf[1][4], buf |-> OpenedBuf(buf),
              aead |-> TRUE, nonce |-> nonce]
        ELSE [res |-> "err", ks |-> k1, plain |-> Empty, buf |-> buf,
              aead |-> TRUE, nonce |-> nonce]

\* A mutant of decrypt_tls_encrypted: the key is not tested for being empty.
decrypt_tls_encrypted_anykey(k, orc, bld, hdr_buf, buf) ==
    LET seq_num == k.read_seq_num
        k1 == [k EXCEPT !.read_seq_num = Incr(seq_num)]
        nonce == derive_nonce(IvBytes(orc, k.server_write_iv), seq_num)
    IN  IF IncrPanics(seq_num, bld)
        THEN [res |-> "panic", ks |-> k, plain |-> Empty, buf |-> buf,
              aead |-> FALSE, nonce |-> nonce]
        ELSE IF OpenOk(k.server_write_key, nonce, hdr_buf, buf)
        THEN [res |-> "ok", ks |-> k1, plain |-> buf[1][4], buf |-> OpenedBuf(buf),
              aead |-> TRUE, nonce |-> nonce]
        ELSE [res |-> "err", ks |-> k1, plain |-> Empty, buf |-> buf,
              aead |-> TRUE, nonce |-> nonce]

\* enc-dec.rs decrypt_tls_encrypted.  res is "ok", "err" or "panic"; plain is
\* the plaintext slice an Ok carries; buf is the caller's buffer afterwards;
\* aead says whether open_in_place ran.
decrypt_tls_encrypted(k, orc, bld, hdr_buf, buf) ==
    LET seq_num == k.read_seq_num
        k1 == [k EXCEPT !.read_seq_num = Incr(seq_num)]
        nonce == derive_nonce(IvBytes(orc, k.server_write_iv), seq_num)
    IN  IF IncrPanics(seq_num, bld)
        THEN [res |-> "panic", ks |-> k, plain |-> Empty, buf |-> buf,
              aead |-> FALSE, nonce |-> nonce]
        ELSE IF k.server_write_key = Empty
        THEN [res |-> "err", ks |-> k1, plain |-> Empty, buf |-> buf,
              aead |-> FALSE, nonce |-> nonce]
        ELSE IF OpenOk(k.server_write_key, nonce, hdr_buf, buf)
        THEN [res |-> "ok", ks |-> k1, plain |-> buf[1][4], buf |-> OpenedBuf(buf),
              aead |-> TRUE, nonce |-> nonce]
        ELSE [res |-> "err", ks |-> k1, plain |-> Empty, buf |-> buf,
              aead |-> TRUE, nonce |-> nonce]

\* A mutant of encrypt_tls_plaintext: the write counter is read and not
\* moved.
encrypt_tls_plaintext_peek(k, orc, bld, hdr_buf, tls_plaintext) ==
    LET seq_num == k.write_seq_num
        nonce == derive_nonce(IvBytes(orc, k.client_write_iv), seq_num)
    IN  IF IncrPanics(seq_num, bld)
        THEN [res |-> "panic", ks |-> k, ct |-> Empty, tag |-> Empty,
              aead |-> FALSE, nonce |-> nonce]
        ELSE IF k.client_write_key = Empty
        THEN [res |-> "err", ks |-> k, ct |-> Empty, tag |-> Empty,
              aead |-> FALSE, nonce |-> nonce]
        ELSE [res |-> "ok", ks |-> k,
              ct |-> SealCt(k.client_write_key, nonce, tls_plaintext),
              tag |-> SealTag(k.client_write_key, nonce, hdr_buf, tls_plaintext),
              aead |-> TRUE, nonce |-> nonce]

\* enc-dec.rs encrypt_tls_plaintext.  On "ok", ct and tag are the sealed
\* bytes and the detached tag.
encrypt_tls_plaintext(k, orc, bld, hdr_buf, tls_plaintext) ==
    LET seq_num == k.write_seq_num
        k1 == [k EXCEPT !.write_seq_num = Incr(seq_num)]
        nonce == derive_nonce(IvBytes(orc, k.client_write_iv), seq_num)
    IN  IF IncrPanics(seq_num, bld)
        THEN [res |-> "panic", ks |-> k, ct |-> Empty, tag |-> Empty,
              aead |-> FALSE, nonce |-> nonce]
        ELSE IF k.client_write_key = Empty
        THEN [res |-> "err", ks |-> k1, ct |-> Empty, tag |-> Empty,
              aead |-> FALSE, nonce |-> nonce]
        ELSE [res |-> "ok", ks |-> k1,
              ct |-> SealCt(k.client_write_key, nonce, tls_plaintext),
              tag |-> SealTag(k.client_write_key, nonce, hdr_buf, tls_plaintext),
              aead |-> TRUE, nonce |-> nonce]

(***************************************************************************)
(* State.                                                                  *)
(***************************************************************************)
VARIABLES
    ks,          \* the connection's key schedule (handshake, then application)
    prf,         \* the IV bytes of the IV terms derived so far
    build,       \* "checked" or "wrapping": how += 1 overflows
    pc,          \* where the running process stands
    sealLog,     \* history: the nonces records were sealed with under the current write key
    openLog,     \* history: the nonces records were opened with under the current read key
    sealReuse,   \* history: a record was sealed with a nonce already in sealLog
    openReuse,   \* history: a record was opened with a nonce already in openLog
    agreements,  \* history: X25519 agreements the private key took part in
    lastRes      \* the result of the last call: "none", "ok", "err", "panic"

schedVars == <<ks, prf, build, sealLog, openLog, sealReuse, openReuse,
               agreements, lastRes>>

VARIABLES
    sent,            \* the records the client wrote to the TCP stream
    server_hello,    \* the extensions of the ServerHello expect_server_hello returned
    cert_requested,  \* start_handshake's cert_requested
    blob,            \* the buffer read_tls_encrypted returned
    p,               \* the unparsed rest of blob
    verify_data,     \* send_client_finished's verify_data
    fault,           \* history: the first failure of a received record
    faultSent,       \* history: Len(sent) when fault was set
    sh_body,         \* history: the body of the ServerHello record
    sfTranscript,    \* history: the transcript when on_server_finished was invoked
    signLog,         \* history: the signing oracle's invocations: input and outcome
    client_cert,     \* main's client_cert: the buffer get_client_cert returned
    rcvd,            \* history: the records read off the TLS stream, in order
    signing          \* try_sign calls that hold the TPM context's borrow

drvVars == <<sent, server_hello, cert_requested, blob, p, verify_data,
             fault, faultSent, sh_body, sfTranscript, signLog, client_cert, rcvd,
             signing>>

VARIABLES
    args,            \* the arguments of a function called on its own
    ret              \* what the calls on args returned, in order

callVars == <<args, ret>>

VARIABLES
    iss,             \* the issuer thread: its position and its locals
    conns,           \* the enrollment connections made to the issuer, in order
    stream           \* get_client_cert's stream: its place in conns, 0 before connect

issVars == <<iss, conns, stream>>

vars == <<ks, prf, build, pc, sealLog, openLog, sealReuse, openReuse,
          agreements, lastRes, sent, server_hello, cert_requested, blob, p,
          verify_data, fault, faultSent, sh_body, sfTranscript, signLog,
          client_cert, rcvd, signing, args, ret, iss, conns, stream>>

\* The issuer before its thread has bound the listener's first connection.
IssIdle ==
    /\ iss = [pc |-> "accept", cur |-> 0, size |-> 0, buffer |-> << >>, died_on |-> 0]
    /\ conns = << >>
    /\ stream = 0

CallIdle ==
    /\ args = << >>
    /\ ret = << >>

DrvIdle ==
    /\ sent = << >>
    /\ server_hello = << >>
    /\ cert_requested = FALSE
    /\ blob = << >>
    /\ p = << >>
    /\ verify_data = Empty
    /\ fault = "none"
    /\ faultSent = 0
    /\ sh_body = << >>
    /\ sfTranscript = << >>
    /\ signLog = << >>
    /\ client_cert = << >>
    /\ rcvd = << >>
    /\ signing = 0

\* The 5-byte record headers of the model: content type, legacy version and
\* length.
Tls10 == 769
Tls12 == 771
Hdr(ctype, version, len) == <<"hdr", ctype, version, len>>

CtHandshake == 22
CtChangeCipherSpec == 20
CtAlert == 21
CtApplicationData == 23

\* Application plaintexts a peer or a caller may protect.
AppData(n) == << <<"junk", n>>, <<"ctype", CtApplicationData>> >>
AppPts == {AppData(5)}

SchedInit ==
    /\ ks = HandshakeKeySchedule_new
    /\ prf = << >>
    /\ build \in Builds
    /\ sealLog = {}
    /\ openLog = {}
    /\ sealReuse = FALSE
    /\ openReuse = FALSE
    /\ agreements = 0
    /\ lastRes = "none"

\* What a call of encrypt_tls_plaintext with result r adds to the history.
EncryptHist(r) ==
    LET use == r.nonce
    IN  /\ lastRes' = r.res
        /\ sealLog' = IF r.aead THEN sealLog \cup {use} ELSE sealLog
        /\ sealReuse' = (sealReuse \/ (r.aead /\ use \in sealLog))

\* What a call of decrypt_tls_encrypted with result r adds to the history.
DecryptHist(r) ==
    LET use == r.nonce
    IN  /\ lastRes' = r.res
        /\ openLog' = IF r.aead THEN openLog \cup {use} ELSE openLog
        /\ openReuse' = (openReuse \/ (r.aead /\ use \in openLog))

\* The effect of one encrypt_tls_plaintext call on the schedule state.
DoEncrypt(hdr_buf, pt) ==
    LET r == encrypt_tls_plaintext(ks, prf, build, hdr_buf, pt)
    IN  /\ ks' = r.ks
        /\ EncryptHist(r)
        /\ UNCHANGED <<prf, build, openLog, openReuse, agreements>>

\* The effect of one decrypt_tls_encrypted call on the schedule state.
DoDecrypt(hdr_buf, buf) ==
    LET r == decrypt_tls_encrypted(ks, prf, build, hdr_buf, buf)
    IN  /\ ks' = r.ks
        /\ DecryptHist(r)
        /\ UNCHANGED <<prf, build, sealLog, sealReuse, agreements>>

\* The logs of a key that was replaced start empty.
NewKeyLog(log, old_key, new_key) == IF new_key = old_key THEN log ELSE {}

\* The effect of update_handshake_secret: the schedule, the agreement count
\* and the bytes of the two IVs it derives.
DoUpdateHandshakeSecret(server_pub) ==
    LET r == update_handshake_secret(ks, server_pub)
        ivs == {r.ks.server_write_iv, r.ks.client_write_iv} \ {Empty}
    IN  /\ ks' = r.ks
        /\ lastRes' = r.res
        /\ agreements' = agreements + (IF r.agreed THEN 1 ELSE 0)
        /\ prf' \in OracleExt(prf, ivs)
        /\ sealLog' = NewKeyLog(sealLog, ks.client_write_key, r.ks.client_write_key)
        /\ openLog' = NewKeyLog(openLog, ks.server_write_key, r.ks.server_write_key)
        /\ UNCHANGED <<build, sealReuse, openReuse>>

\* The effect of into_application_key_schedule.
DoIntoApplication(k1) ==
    /\ prf' \in OracleExt(prf, {k1.server_write_iv, k1.client_write_iv})
    /\ sealLog' = NewKeyLog(sealLog, ks.client_write_key, k1.client_write_key)
    /\ openLog' = NewKeyLog(openLog, ks.server_write_key, k1.server_write_key)
    /\ UNCHANGED <<build, sealReuse, openReuse, agreements>>

\* What a peer holding the schedule's read key may put on the wire as the
\* body of the next encrypted record: a record sealed at the reader's
\* sequence number or at the next one, under the header it is sent with or
\* under another one; and bytes that are no sealed record.
PeerSealed(k, orc, hdr_buf, pts) ==
    { << SealCt(k.server_write_key, derive_nonce(IvBytes(orc, k.server_write_iv), s), pt),
         SealTag(k.server_write_key, derive_nonce(IvBytes(orc, k.server_write_iv), s), aad, pt) >> :
        s \in {k.read_seq_num, Incr(k.read_seq_num)},
        aad \in {hdr_buf, Hdr(CtAlert, Tls12, 2)},
        pt \in pts }

JunkBody == << <<"junk", 2>> >>

(***************************************************************************)
(* SchedSpec: any sequence of calls on one connection's schedules.         *)
(***************************************************************************)
ApiUpdateHandshakeSecret ==
    /\ pc = "api"
    /\ UNCHANGED <<callVars, issVars>>
    /\ UNCHANGED drvVars
    /\ ks.kind = "handshake"
    /\ \E server_pub \in ServerPubs : DoUpdateHandshakeSecret(server_pub)
    /\ pc' = IF lastRes' = "panic" THEN "panicked" ELSE "api"

\* The model calls on_server_finished once per schedule: each call nests the
\* master secret one level deeper.
ApiOnServerFinished ==
    /\ pc = "api"
    /\ UNCHANGED <<callVars, issVars>>
    /\ UNCHANGED drvVars
    /\ ks.kind = "handshake"
    /\ ks.client_write_key /= Empty
    /\ ks.server_application_traffic_secret = Empty
    /\ ks' = on_server_finished(ks)
    /\ lastRes' = "ok"
    /\ UNCHANGED <<prf, build, sealLog, openLog, sealReuse, openReuse,
                   agreements, pc>>

ApiIntoApplication ==
    /\ pc = "api"
    /\ UNCHANGED <<callVars, issVars>>
    /\ UNCHANGED drvVars
    /\ ks.kind = "handshake"
    /\ ks.server_application_traffic_secret /= Empty
    /\ ks' = into_application_key_schedule(ks)
    /\ DoIntoApplication(ks')
    /\ lastRes' = "ok"
    /\ pc' = pc

ApiEncrypt ==
    /\ pc = "api"
    /\ UNCHANGED <<callVars, issVars>>
    /\ UNCHANGED drvVars
    /\ ks.client_write_key = Empty => ks.write_seq_num < MaxEarlyCalls
    /\ \E pt \in AppPts :
          DoEncrypt(Hdr(CtApplicationData, Tls12, ByteLen(pt) + TagLen), pt)
    /\ pc' = IF lastRes' = "panic" THEN "panicked" ELSE "api"

ApiDecrypt ==
    /\ pc = "api"
    /\ UNCHANGED <<callVars, issVars>>
    /\ UNCHANGED drvVars
    /\ ks.server_write_key = Empty => ks.read_seq_num < MaxEarlyCalls
    /\ \E pt \in AppPts :
         LET hdr_buf == Hdr(CtApplicationData, Tls12, ByteLen(pt) + TagLen)
         IN  \E buf \in PeerSealed(ks, prf, hdr_buf, {pt}) \cup {JunkBody} :
                DoDecrypt(hdr_buf, buf)
    /\ pc' = IF lastRes' = "panic" THEN "panicked" ELSE "api"

SchedNext ==
    \/ ApiUpdateHandshakeSecret
    \/ ApiOnServerFinished
    \/ ApiIntoApplication
    \/ ApiEncrypt
    \/ ApiDecrypt

(***************************************************************************)
(* The handshake driver of main.rs: main, start_handshake and what they    *)
(* call, one action per statement of start_handshake.                      *)
(***************************************************************************)
\* Handshake messages as tokens.
HsMsg(type, body, len) == <<"hs", type, body, len>>
Ext(name, kx) == <<"ext", name, kx>>

\* main.rs gen_client_hello, serialized without the record header.
ClientHelloMsg(kx) == HsMsg("client_hello", kx, 120)

ServerHelloMsg(exts) == HsMsg("server_hello", exts, 90)
EncryptedExtensionsMsg == HsMsg("encrypted_extensions", Empty, 6)
CertificateRequestMsg == HsMsg("certificate_request", Empty, 12)
ServerCertificateMsg(der) == HsMsg("certificate", <<"cert", der>>, 300)
ServerCertificateVerifyMsg == HsMsg("certificate_verify", <<"sig", <<"server">>>>, 264)
ServerFinishedMsg == HsMsg("finished", HmacSha256(<<"server_finished_key">>, Empty), 36)

\* The bytes a Certificate message has besides the certificate: handshake
\* header, request context length, list length, entry length, extensions
\* length.
CertificateMsgOverhead == 13

\* main.rs send_client_cert: the Certificate message of the enrolled chain.
ClientCertificateMsg(der) ==
    HsMsg("certificate", <<"cert", der>>, ByteLen(der) + CertificateMsgOverhead)
\* main.rs send_cert_verify
CertificateVerifyMsg(sig) == HsMsg("certificate_verify", sig, 264)
\* main.rs send_client_finished
FinishedMsg(vd) == HsMsg("finished", vd, 36)

\* A record on the wire: its 5-byte header and its body.
Record(hdr, body) == [hdr |-> hdr, body |-> body]

\* tls_parser::parse_tls_record_with_header: whether a plaintext record body
\* parses as what its header's content type says.
RecordParses(rec) ==
    CASE rec.hdr[2] = CtHandshake ->
             /\ rec.body /= << >>
             /\ \A i \in 1 .. Len(rec.body) : rec.body[i][1] = "hs"
      [] rec.hdr[2] = CtChangeCipherSpec -> rec.body = << <<"ccs", 1>> >>
      [] rec.hdr[2] = CtAlert -> ByteLen(rec.body) = 2
      [] OTHER -> TRUE

\* A mutant of ParseHs: any bytes are taken for a handshake message.
ParseHs_lenient(buf) ==
    IF buf /= << >>
    THEN [ok |-> TRUE,
          msg |-> IF Head(buf)[1] = "hs" THEN Head(buf)
                  ELSE <<"hs", "unknown", << >>, TokLen(Head(buf))>>,
          rest |-> Tail(buf)]
    ELSE [ok |-> FALSE, msg |-> <<"hs", "none", << >>, 0>>, rest |-> buf]

\* tls_parser::parse_tls_message_handshake on the front of a buffer.
ParseHs(buf) ==
    IF buf /= << >> /\ Head(buf)[1] = "hs"
    THEN [ok |-> TRUE, msg |-> Head(buf), rest |-> Tail(buf)]
    ELSE [ok |-> FALSE, msg |-> HsMsg("none", Empty, 0), rest |-> buf]

(***************************************************************************)
(* What the peer may send.                                                 *)
(***************************************************************************)
KeyShareExt(kx) == Ext("key_share", kx)
SupportedVersionsExt == Ext("supported_versions", Empty)

\* The first record: a ServerHello with its key_share first, with another
\* extension first, with a key the agreement rejects or with no extension;
\* a ServerHello with a further handshake message behind it in the record;
\* another handshake message; an alert; bytes that do not parse.
FirstRecords ==
    { Record(Hdr(CtHandshake, Tls12, 90), <<ServerHelloMsg(exts)>>) :
        exts \in { <<KeyShareExt(GoodPub)>>,
                   <<KeyShareExt(GoodPub), SupportedVersionsExt>>,
                   <<SupportedVersionsExt, KeyShareExt(GoodPub)>>,
                   <<KeyShareExt(BadPub)>>,
                   << >> } }
    \cup { Record(Hdr(CtHandshake, Tls12, 96),
                  <<ServerHelloMsg(<<KeyShareExt(GoodPub)>>), EncryptedExtensionsMsg>>),
           Record(Hdr(CtHandshake, Tls12, 6), <<EncryptedExtensionsMsg>>),
           Record(Hdr(CtAlert, Tls12, 2), JunkBody),
           Record(Hdr(CtHandshake, Tls12, 2), JunkBody) }

\* The second record: a ChangeCipherSpec, one that does not parse, or a
\* record of another type.
SecondRecords ==
    { Record(Hdr(CtChangeCipherSpec, Tls12, 1), << <<"ccs", 1>> >>),
      Record(Hdr(CtChangeCipherSpec, Tls12, 2), JunkBody),
      Record(Hdr(CtAlert, Tls12, 2), JunkBody),
      Record(Hdr(CtApplicationData, Tls12, 2), JunkBody) }

\* The handshake messages of a server flight.
Flights ==
    { <<EncryptedExtensionsMsg, ServerCertificateMsg("valid"),
        ServerCertificateVerifyMsg, ServerFinishedMsg>>,
      <<EncryptedExtensionsMsg, CertificateRequestMsg, ServerCertificateMsg("valid"),
        ServerCertificateVerifyMsg, ServerFinishedMsg>>,
      <<EncryptedExtensionsMsg, ServerCertificateMsg("invalid"),
        ServerCertificateVerifyMsg, ServerFinishedMsg>>,
      <<EncryptedExtensionsMsg, ServerCertificateMsg("valid"),
        ServerCertificateVerifyMsg>>,
      <<EncryptedExtensionsMsg, ServerCertificateMsg("valid"),
        ServerCertificateVerifyMsg, ServerFinishedMsg, EncryptedExtensionsMsg>>,
      <<ServerFinishedMsg, EncryptedExtensionsMsg,
        EncryptedExtensionsMsg, ServerFinishedMsg>>,
      <<CertificateRequestMsg, ServerCertificateMsg("valid"),
        ServerCertificateVerifyMsg, ServerFinishedMsg>> }

\* n zero bytes of record padding.
RECURSIVE Padding(_)
Padding(n) == IF n = 0 THEN << >> ELSE << <<"pad", 0>> >> \o Padding(n - 1)

\* TLSInnerPlaintext: content, content type, zero padding.
InnerPlaintext(content, ctype, npad) ==
    content \o << <<"ctype", ctype>> >> \o Padding(npad)

FlightPts ==
    { InnerPlaintext(f, CtHandshake, n) : f \in Flights, n \in 0 .. MaxPad }

\* The encrypted records a peer may send while the schedule is k: sealed
\* plaintexts of pts under a header of type ApplicationData or Handshake, or
\* junk.
EncryptedRecords(k, orc, pts) ==
    UNION { { Record(Hdr(ct, Tls12, ByteLen(pt) + TagLen), body) :
                body \in PeerSealed(k, orc, Hdr(ct, Tls12, ByteLen(pt) + TagLen), {pt}) } :
            ct \in {CtApplicationData, CtHandshake}, pt \in pts }
    \cup { Record(Hdr(CtApplicationData, Tls12, 2), JunkBody) }

\* Encrypted records with a body of fewer than 17 bytes: no byte at all, 15
\* or 16 bytes that are no sealed record, and the 16-byte tag of an empty
\* plaintext sealed at the reader's sequence number under the record's
\* header.
ShortRecords(k, orc) ==
    LET hdr(n) == Hdr(CtApplicationData, Tls12, n)
        nonce == derive_nonce(IvBytes(orc, k.server_write_iv), k.read_seq_num)
    IN  { Record(hdr(0), << >>),
          Record(hdr(TagLen - 1), << <<"junk", TagLen - 1>> >>),
          Record(hdr(TagLen), << <<"junk", TagLen>> >>),
          Record(hdr(TagLen), << SealCt(k.server_write_key, nonce, << >>),
                                 SealTag(k.server_write_key, nonce, hdr(TagLen), << >>) >>) }

(***************************************************************************)
(* Enrollment: the CSR of tpm.rs and the issuer's sign_csr of              *)
(* server/src/main.rs.  DER values are tokens; a buffer is a sequence of   *)
(* tokens.                                                                 *)
(***************************************************************************)
\* tpm.rs line 108 and server/src/main.rs lines 136-141
ClientSubject == "CN=SecPoC+O=fox+C=US"
CaSubject == "O=Sec-PoC-CA,CN=PoC CA"

TpmKey == <<"rsa", "tpm">>
OtherKey == <<"rsa", "other">>
CaKey == <<"rsa", "ca">>

\* A DER CertificationRequest of n bytes: its info (subject and public key)
\* and the key its signature was made with.
CertReqInfo(subject, public_key) == <<"csr_info", subject, public_key>>
CertReq(subject, public_key, signed_by, n) ==
    <<"csr", CertReqInfo(subject, public_key), signed_by, n>>

\* A DER Certificate: the issuer, subject, public key and serial number of
\* its TBSCertificate, and the key its signature was made with.
X509Certificate(issuer, subject, public_key, serial, signed_by) ==
    <<"x509", issuer, subject, public_key, serial, signed_by>>

\* tpm.rs tpm_generate_csr lines 108-115: the request the builder hands to
\* the signer, and the DER request built with its signature.
ClientCertReqInfo == CertReqInfo(ClientSubject, TpmKey)
ClientCsr == <<CertReq(ClientSubject, TpmKey, TpmKey, 700)>>

\* x509_cert::request::CertReq::from_der on a buffer
CertReq_from_der(csr) ==
    IF Len(csr) = 1 /\ csr[1][1] = "csr"
    THEN [ok |-> TRUE, subject |-> csr[1][2][2], public_key |-> csr[1][2][3]]
    ELSE [ok |-> FALSE, subject |-> "", public_key |-> Empty]

\* x509_cert::certificate::Certificate::from_der on a buffer
Certificate_from_der(buf) == Len(buf) = 1 /\ buf[1][1] = "x509"

\* A mutant of sign_csr: the certificate's subject is the CA's.
sign_csr_ca_subject(csr, built) ==
    LET cert_req == CertReq_from_der(csr)
    IN  IF cert_req.ok /\ built
        THEN [ok |-> TRUE,
              der |-> <<X509Certificate(CaSubject, CaSubject,
                                        cert_req.public_key, 1, CaKey)>>]
        ELSE [ok |-> FALSE, der |-> << >>]

\* A mutant of sign_csr: a request whose signature was not made with the key
\* it carries is turned down.
sign_csr_verified(csr, built) ==
    LET cert_req == CertReq_from_der(csr)
        issuer == CaSubject
    IN  IF cert_req.ok /\ built /\ csr[1][3] = cert_req.public_key
        THEN [ok |-> TRUE,
              der |-> <<X509Certificate(issuer, cert_req.subject,
                                        cert_req.public_key, 1, CaKey)>>]
        ELSE [ok |-> FALSE, der |-> << >>]

\* server/src/main.rs TestPKI::sign_csr.  built says whether the steps after
\* the parse (Validity::from_now, the CA key's decoding, the builder, the
\* signature, the encoding) all succeed.  The request's own signature is not
\* looked at.
sign_csr(csr, built) ==
    LET cert_req == CertReq_from_der(csr)
        issuer == CaSubject
    IN  IF cert_req.ok /\ built
        THEN [ok |-> TRUE,
              der |-> <<X509Certificate(issuer, cert_req.subject,
                                        cert_req.public_key, 1, CaKey)>>]
        ELSE [ok |-> FALSE, der |-> << >>]

(***************************************************************************)
(* Driver steps.                                                           *)
(***************************************************************************)
\* The driver moves to `to`; a received record was at fault (why).
Faulted(to, why) ==
    /\ pc' = to
    /\ fault' = IF fault = "none" THEN why ELSE fault
    /\ faultSent' = IF fault = "none" THEN Len(sent) ELSE faultSent

NoFault == UNCHANGED <<fault, faultSent>>

histUnch == UNCHANGED <<sealLog, openLog, sealReuse, openReuse, agreements>>

\* main.rs send_client_hello (start_handshake line 115)
\* What the enrollment connection may return to read_to_end: the
\* certificate the issuer builds for the client's request, a certificate
\* for another, large key, nothing, or bytes that are no certificate.
IssuerResponses ==
    { sign_csr(ClientCsr, TRUE).der,
      <<X509Certificate(CaSubject, ClientSubject, BigKey, 1, CaKey)>>,
      << >>,
      JunkBody }

\* A mutant of TrySignEnd: the borrow of the TPM context outlives the call.
TrySignEnd_leak == signing' = signing

\* tpm.rs try_sign line 182: borrow_mut() of the TPM context; the sign
\* command goes to the TPM.
TrySignBegin == signing' = signing + 1

\* tpm.rs try_sign lines 190-213: the TPM's answer is there and try_sign
\* returns, which drops the borrow.
TrySignEnd == signing' = signing - 1

\* tpm.rs tpm_generate_csr (get_client_cert line 33): the TPM set-up, then
\* the request builder's build(), which calls the signer once on the request
\* info; every error is returned with `?`.  The step ends when try_sign has
\* given the sign command to the TPM.
TpmGenerateCsr ==
    /\ pc = "tpm_generate_csr"
    /\ UNCHANGED <<callVars, issVars>>
    /\ UNCHANGED <<rcvd, signLog>>
    /\ \E outcome \in {"tpm_error", "ok"} :
         IF outcome = "tpm_error"
         THEN pc' = "failed" /\ UNCHANGED signing
         ELSE pc' = "try_sign_csr" /\ TrySignBegin
    /\ NoFault
    /\ histUnch
    /\ UNCHANGED <<ks, prf, build, lastRes, sent, server_hello, cert_requested,
                   blob, p, verify_data, sh_body, sfTranscript, client_cert>>

\* tpm.rs try_sign lines 183-213 for the request info, and the rest of
\* tpm_generate_csr: the TPM signs or fails, try_sign returns, the request
\* is encoded.
TrySignCsr ==
    /\ pc = "try_sign_csr"
    /\ UNCHANGED <<callVars, issVars>>
    /\ UNCHANGED rcvd
    /\ TrySignEnd
    /\ \E signed \in BOOLEAN :
         /\ signLog' = Append(signLog, [msg |-> ClientCertReqInfo, ok |-> signed])
         /\ pc' = IF signed THEN "get_client_cert" ELSE "failed"
    /\ NoFault
    /\ histUnch
    /\ UNCHANGED <<ks, prf, build, lastRes, sent, server_hello, cert_requested,
                   blob, p, verify_data, sh_body, sfTranscript, client_cert>>

\* tpm.rs get_client_cert lines 34-46: connect, write the length and the
\* request, read_to_end, Certificate::from_der; then main lines 89-92.
GetClientCert ==
    /\ pc = "get_client_cert"
    /\ UNCHANGED <<callVars, issVars>>
    /\ UNCHANGED signing
    /\ UNCHANGED rcvd
    /\ \E connected \in BOOLEAN, buf \in IssuerResponses :
         IF connected /\ Certificate_from_der(buf)
         THEN pc' = "start" /\ client_cert' = buf
         ELSE pc' = "failed" /\ client_cert' = client_cert
    /\ NoFault
    /\ histUnch
    /\ UNCHANGED <<ks, prf, build, lastRes, sent, server_hello, cert_requested,
                   blob, p, verify_data, sh_body, sfTranscript, signLog>>

SendClientHello ==
    /\ pc = "start"
    /\ UNCHANGED <<callVars, issVars>>
    /\ UNCHANGED signing
    /\ UNCHANGED rcvd
    /\ LET msg == ClientHelloMsg(ks.my_public_key)
       IN  /\ ks' = add_transcript(ks, <<msg>>)
           /\ sent' = Append(sent, Record(Hdr(CtHandshake, Tls10, TokLen(msg)), <<msg>>))
    /\ pc' = "wait_sh"
    /\ NoFault
    /\ histUnch
    /\ UNCHANGED <<prf, build, lastRes, server_hello, cert_requested, blob, p,
                   verify_data, sh_body, sfTranscript, signLog, client_cert>>

\* start_handshake lines 117-120: read_tls_record_with_vec,
\* expect_server_hello, add_transcript(&raw_vec)
ReadServerHello ==
    /\ pc = "wait_sh"
    /\ UNCHANGED <<callVars, issVars>>
    /\ UNCHANGED signing
    /\ \E rec \in FirstRecords :
         /\ rcvd' = Append(rcvd, rec)
         /\ IF ~RecordParses(rec)
            THEN /\ Faulted("failed", "parse")
                 /\ UNCHANGED <<ks, server_hello, sh_body>>
            ELSE IF rec.hdr[2] /= CtHandshake
            THEN /\ Faulted("failed", "content_type")
                 /\ UNCHANGED <<ks, server_hello, sh_body>>
            ELSE IF Head(rec.body)[2] /= "server_hello"
            THEN /\ Faulted("failed", "message")
                 /\ UNCHANGED <<ks, server_hello, sh_body>>
            ELSE /\ ks' = add_transcript(ks, rec.body)
                 /\ server_hello' = Head(rec.body)[3]
                 /\ sh_body' = rec.body
                 /\ pc' = "expect_key_share"
                 /\ NoFault
    /\ histUnch
    /\ UNCHANGED <<prf, build, lastRes, sent, cert_requested, blob, p,
                   verify_data, sfTranscript, signLog, client_cert>>

\* main.rs expect_key_share (start_handshake line 122): only the first
\* extension is looked at; when it is no key_share nothing is done.
ExpectKeyShare ==
    /\ pc = "expect_key_share"
    /\ UNCHANGED <<callVars, issVars>>
    /\ UNCHANGED signing
    /\ UNCHANGED rcvd
    /\ IF server_hello = << >>
       THEN /\ Faulted("failed", "message")
            /\ UNCHANGED <<ks, prf, agreements, lastRes, sealLog, openLog>>
       ELSE IF Head(server_hello)[2] = "key_share"
       THEN /\ DoUpdateHandshakeSecret(Head(server_hello)[3])
            /\ IF lastRes' = "ok" THEN pc' = "wait_ccs" /\ NoFault
               ELSE Faulted(IF lastRes' = "panic" THEN "panicked" ELSE "failed",
                          "key_exchange")
       ELSE /\ pc' = "wait_ccs"
            /\ NoFault
            /\ UNCHANGED <<ks, prf, agreements, lastRes, sealLog, openLog>>
    /\ UNCHANGED <<build, sealReuse, openReuse>>
    /\ UNCHANGED <<sent, server_hello, cert_requested, blob, p, verify_data,
                   sh_body, sfTranscript, signLog, client_cert>>

\* A mutant of ReadChangeCipherSpec: a record of any content type is let
\* through.
ReadChangeCipherSpec_any ==
    /\ pc = "wait_ccs"
    /\ UNCHANGED <<callVars, issVars>>
    /\ UNCHANGED signing
    /\ \E rec \in SecondRecords :
         /\ rcvd' = Append(rcvd, rec)
         /\ IF ~RecordParses(rec) THEN Faulted("failed", "parse")
            ELSE pc' = "wait_flight" /\ NoFault
    /\ histUnch
    /\ UNCHANGED <<ks, prf, build, lastRes, sent, server_hello, cert_requested,
                   blob, p, verify_data, sh_body, sfTranscript, signLog, client_cert>>

\* start_handshake lines 124-127: read_tls_record, then the content type.
ReadChangeCipherSpec ==
    /\ pc = "wait_ccs"
    /\ UNCHANGED <<callVars, issVars>>
    /\ UNCHANGED signing
    /\ \E rec \in SecondRecords :
         /\ rcvd' = Append(rcvd, rec)
         /\ IF ~RecordParses(rec) THEN Faulted("failed", "parse")
            ELSE IF rec.hdr[2] /= CtChangeCipherSpec THEN Faulted("failed", "content_type")
            ELSE pc' = "wait_flight" /\ NoFault
    /\ histUnch
    /\ UNCHANGED <<ks, prf, build, lastRes, sent, server_hello, cert_requested,
                   blob, p, verify_data, sh_body, sfTranscript, signLog, client_cert>>

\* main.rs read_tls_encrypted: read_tls_encrypted_record, which does not look
\* at the header's content type, decrypt_tls_encrypted on the local copy blob
\* of the whole body, and the log line that indexes blob[0..10].
ReadTlsEncrypted(rec, next) ==
    /\ rcvd' = Append(rcvd, rec)
    /\ DoDecrypt(rec.hdr, rec.body)
    /\ IF lastRes' = "panic"
       THEN Faulted("panicked", "overflow") /\ blob' = rec.body
       ELSE IF lastRes' = "err"
       THEN Faulted("failed", "aead") /\ blob' = rec.body
       ELSE LET r == decrypt_tls_encrypted(ks, prf, build, rec.hdr, rec.body)
            IN  /\ blob' = r.buf
                /\ IF ByteLen(r.buf) < 10
                   THEN Faulted("panicked", "short")
                   ELSE IF rec.hdr[2] /= CtApplicationData
                   THEN Faulted(next, "content_type")
                   ELSE pc' = next /\ NoFault

\* start_handshake line 129
ReadFlight ==
    /\ pc = "wait_flight"
    /\ UNCHANGED <<callVars, issVars>>
    /\ UNCHANGED signing
    /\ \E rec \in EncryptedRecords(ks, prf, FlightPts) \cup ShortRecords(ks, prf) :
          ReadTlsEncrypted(rec, "parse_extensions")
    /\ UNCHANGED <<sent, server_hello, cert_requested, p, verify_data, sh_body,
                   sfTranscript, signLog, client_cert>>

\* main.rs parse_tls_extensions (start_handshake line 130): one handshake
\* message is parsed off the blob, whatever its type.
ParseTlsExtensions ==
    /\ pc = "parse_extensions"
    /\ UNCHANGED <<callVars, issVars>>
    /\ UNCHANGED signing
    /\ UNCHANGED rcvd
    /\ LET r == ParseHs(blob)
       IN  IF r.ok THEN p' = r.rest /\ pc' = "process_server_cert" /\ NoFault
           ELSE p' = p /\ Faulted("failed", "parse")
    /\ histUnch
    /\ UNCHANGED <<ks, prf, build, lastRes, sent, server_hello, cert_requested,
                   blob, verify_data, sh_body, sfTranscript, signLog, client_cert>>

\* main.rs process_server_cert (start_handshake line 131).  A Certificate
\* whose cert_data is no valid DER panics in unwrap().
ProcessServerCert ==
    /\ pc = "process_server_cert"
    /\ UNCHANGED <<callVars, issVars>>
    /\ UNCHANGED signing
    /\ UNCHANGED rcvd
    /\ LET r1 == ParseHs(p)
           requested == r1.ok /\ r1.msg[2] = "certificate_request"
           r2 == IF requested THEN ParseHs(r1.rest) ELSE r1
           r3 == ParseHs(r2.rest)
       IN  IF ~r1.ok \/ ~r2.ok
           THEN Faulted("failed", "parse") /\ UNCHANGED <<p, cert_requested>>
           ELSE IF r2.msg[2] = "certificate" /\ r2.msg[3] = <<"cert", "invalid">>
           THEN Faulted("panicked", "parse") /\ UNCHANGED <<p, cert_requested>>
           ELSE IF ~r3.ok
           THEN Faulted("failed", "parse") /\ UNCHANGED <<p, cert_requested>>
           ELSE /\ cert_requested' = requested
                /\ p' = r3.rest
                /\ pc' = "process_finished"
                /\ NoFault
    /\ histUnch
    /\ UNCHANGED <<ks, prf, build, lastRes, sent, server_hello, blob,
                   verify_data, sh_body, sfTranscript, signLog, client_cert>>

\* main.rs process_finished (start_handshake line 132): on a Finished the
\* blob without its last 17 bytes goes to the transcript and
\* on_server_finished runs; only then are 17 bytes taken off the rest, which
\* must then be empty.
ProcessFinished ==
    /\ pc = "process_finished"
    /\ UNCHANGED <<callVars, issVars>>
    /\ UNCHANGED signing
    /\ UNCHANGED rcvd
    /\ LET r == ParseHs(p)
           cut == TakeBytes(blob, ByteLen(blob) - (TagLen + 1))
           ks1 == add_transcript(ks, cut)
       IN  IF ~r.ok
           THEN Faulted("failed", "parse") /\ UNCHANGED <<ks, p, sfTranscript>>
           ELSE IF r.msg[2] /= "finished"
           THEN Faulted("failed", "message") /\ UNCHANGED <<ks, p, sfTranscript>>
           ELSE IF ByteLen(blob) < TagLen + 1
           THEN Faulted("panicked", "short") /\ UNCHANGED <<ks, p, sfTranscript>>
           ELSE /\ sfTranscript' = ks1.transcript
                /\ ks' = on_server_finished(ks1)
                /\ IF ByteLen(r.rest) < TagLen + 1
                   THEN Faulted("failed", "parse") /\ p' = r.rest
                   ELSE /\ p' = DropBytes(r.rest, TagLen + 1)
                        /\ IF p' = << >>
                           THEN /\ pc' = IF cert_requested THEN "send_client_cert"
                                         ELSE "send_client_finished"
                                /\ NoFault
                           ELSE Faulted("failed", "parse")
    /\ histUnch
    /\ UNCHANGED <<prf, build, lastRes, sent, server_hello, cert_requested,
                   blob, verify_data, sh_body, signLog, client_cert>>

\* u16 of a usize: `as u16` keeps the low 16 bits.
AsU16(n) == n % 65536

\* main.rs send_handshake_tls_message: the message and the Handshake
\* content-type byte are sealed under an ApplicationData header, header,
\* sealed bytes and tag are written, and then the message is added to the
\* transcript.
SendHandshakeTlsMessage(tls_message, next) ==
    LET tls_message_buf == <<tls_message>>
        tls_encrypted_message_buf == tls_message_buf \o << <<"ctype", CtHandshake>> >>
        wrapped_hdr == Hdr(CtApplicationData, Tls12,
                           AsU16(ByteLen(tls_encrypted_message_buf) + TagLen))
        r == encrypt_tls_plaintext(ks, prf, build, wrapped_hdr, tls_encrypted_message_buf)
    IN  /\ EncryptHist(r)
        /\ IF r.res = "ok"
           THEN /\ sent' = Append(sent, Record(wrapped_hdr, <<r.ct, r.tag>>))
                /\ ks' = add_transcript(r.ks, tls_message_buf)
                /\ pc' = next
           ELSE /\ sent' = sent
                /\ ks' = r.ks
                /\ pc' = IF r.res = "panic" THEN "panicked" ELSE "failed"
        /\ NoFault
        /\ UNCHANGED <<prf, build, openLog, openReuse, agreements>>

\* main.rs send_client_cert (start_handshake line 135)
SendClientCert ==
    /\ pc = "send_client_cert"
    /\ UNCHANGED <<callVars, issVars>>
    /\ UNCHANGED signing
    /\ UNCHANGED rcvd
    /\ SendHandshakeTlsMessage(ClientCertificateMsg(client_cert), "cert_verify_input")
    /\ UNCHANGED <<server_hello, cert_requested, blob, p, verify_data, sh_body,
                   sfTranscript, signLog, client_cert>>

\* A mutant of SigningInput: the hash leaves out the last message of the
\* transcript.
SigningInput_nocert(k) ==
    <<"signing_input", 64, "TLS 1.3, client CertificateVerify",
      Sha256(SubSeq(k.transcript, 1, Len(k.transcript) - 1))>>

\* The input of the CertificateVerify signature: 64 bytes 0x20, the context
\* string with its 0 byte, and the transcript hash.
SigningInput(k) ==
    <<"signing_input", 64, "TLS 1.3, client CertificateVerify", transcript_hash(k)>>

\* main.rs send_cert_verify lines 387-397 (start_handshake line 136): the
\* signing input is put together and the signer is called; the step ends
\* when try_sign has given the sign command to the TPM.
CertVerifyInput ==
    /\ pc = "cert_verify_input"
    /\ UNCHANGED <<callVars, issVars>>
    /\ UNCHANGED rcvd
    /\ TrySignBegin
    /\ pc' = "send_cert_verify"
    /\ NoFault
    /\ histUnch
    /\ UNCHANGED <<ks, prf, build, lastRes, sent, server_hello, cert_requested,
                   blob, p, verify_data, sh_body, sfTranscript, signLog, client_cert>>

\* A mutant of SendCertVerify: a failed signature is left out of the
\* message and the handshake goes on.
SendCertVerify_unsigned ==
    /\ pc = "send_cert_verify"
    /\ UNCHANGED <<callVars, issVars>>
    /\ TrySignEnd
    /\ UNCHANGED rcvd
    /\ \E signed \in BOOLEAN :
         /\ signLog' = Append(signLog, [msg |-> SigningInput(ks), ok |-> signed])
         /\ SendHandshakeTlsMessage(
                CertificateVerifyMsg(IF signed THEN <<"sig", SigningInput(ks)>>
                                     ELSE <<"sig", Empty>>),
                "send_client_finished")
    /\ UNCHANGED <<server_hello, cert_requested, blob, p, verify_data, sh_body,
                   sfTranscript, client_cert>>

\* main.rs send_cert_verify lines 397-404: the signer, called once,
\* returns; its error is returned before anything is sent.
SendCertVerify ==
    /\ pc = "send_cert_verify"
    /\ UNCHANGED <<callVars, issVars>>
    /\ TrySignEnd
    /\ UNCHANGED rcvd
    /\ \E signed \in BOOLEAN :
         /\ signLog' = Append(signLog, [msg |-> SigningInput(ks), ok |-> signed])
         /\ IF signed
            THEN SendHandshakeTlsMessage(CertificateVerifyMsg(<<"sig", SigningInput(ks)>>),
                                         "send_client_finished")
            ELSE /\ pc' = "failed"
                 /\ NoFault
                 /\ histUnch
                 /\ UNCHANGED <<ks, prf, build, lastRes, sent>>
    /\ UNCHANGED <<server_hello, cert_requested, blob, p, verify_data, sh_body,
                   sfTranscript, client_cert>>

\* A mutant of send_client_finished_verify: the verify_data is computed with
\* the Finished message already in the transcript.
send_client_finished_verify_late(k) ==
    get_verify_client_data(add_transcript(k, <<FinishedMsg(Empty)>>))

\* main.rs send_client_finished line 227
send_client_finished_verify(k) == get_verify_client_data(k)

GetVerifyData ==
    /\ pc = "send_client_finished"
    /\ UNCHANGED <<callVars, issVars>>
    /\ UNCHANGED signing
    /\ UNCHANGED rcvd
    /\ verify_data' = send_client_finished_verify(ks)
    /\ pc' = "send_finished_message"
    /\ NoFault
    /\ histUnch
    /\ UNCHANGED <<ks, prf, build, lastRes, sent, server_hello, cert_requested,
                   blob, p, sh_body, sfTranscript, signLog, client_cert>>

\* main.rs send_client_finished lines 228-229
SendFinishedMessage ==
    /\ pc = "send_finished_message"
    /\ UNCHANGED <<callVars, issVars>>
    /\ UNCHANGED signing
    /\ UNCHANGED rcvd
    /\ SendHandshakeTlsMessage(FinishedMsg(verify_data), "into_application")
    /\ UNCHANGED <<server_hello, cert_requested, blob, p, verify_data, sh_body,
                   sfTranscript, signLog, client_cert>>

\* main.rs send_client_finished lines 231-233: the schedule is moved into
\* the application schedule, which then gets the raw verify_data appended;
\* start_handshake returns it.
IntoApplication ==
    /\ pc = "into_application"
    /\ UNCHANGED <<callVars, issVars>>
    /\ UNCHANGED signing
    /\ UNCHANGED rcvd
    /\ LET k1 == into_application_key_schedule(ks)
       IN  /\ ks' = add_transcript(k1, << <<"raw", verify_data>> >>)
           /\ DoIntoApplication(k1)
    /\ pc' = "established"
    /\ NoFault
    /\ UNCHANGED <<lastRes, sent, server_hello, cert_requested, blob, p,
                   verify_data, sh_body, sfTranscript, signLog, client_cert>>

\* main.rs main line 102: one application record is read and opened with
\* the application schedule.
ReadApplicationData ==
    /\ pc = "established"
    /\ UNCHANGED <<callVars, issVars>>
    /\ UNCHANGED signing
    /\ \E rec \in EncryptedRecords(ks, prf, AppPts) :
         LET r == decrypt_tls_encrypted(ks, prf, build, rec.hdr, rec.body)
         IN  /\ rcvd' = Append(rcvd, rec)
             /\ ks' = r.ks
             /\ DecryptHist(r)
             /\ blob' = IF r.res = "ok" THEN r.buf ELSE blob
             /\ pc' = CASE r.res = "panic" -> "panicked"
                        [] r.res = "err" -> "failed"
                        [] OTHER -> IF ByteLen(r.buf) < 10 THEN "panicked" ELSE "done"
    /\ NoFault
    /\ UNCHANGED <<prf, build, sealLog, sealReuse, agreements>>
    /\ UNCHANGED <<sent, server_hello, cert_requested, p, verify_data, sh_body,
                   sfTranscript, signLog, client_cert>>

DrvInit ==
    /\ SchedInit
    /\ DrvIdle
    /\ CallIdle
    /\ IssIdle
    /\ pc = "tpm_generate_csr"

DrvNext ==
    \/ TpmGenerateCsr
    \/ TrySignCsr
    \/ GetClientCert
    \/ SendClientHello
    \/ ReadServerHello
    \/ ExpectKeyShare
    \/ ReadChangeCipherSpec
    \/ ReadFlight
    \/ ParseTlsExtensions
    \/ ProcessServerCert
    \/ ProcessFinished
    \/ SendClientCert
    \/ CertVerifyInput
    \/ SendCertVerify
    \/ GetVerifyData
    \/ SendFinishedMessage
    \/ IntoApplication
    \/ ReadApplicationData

\* The client process: main.rs main.
Spec == DrvInit /\ [][DrvNext]_vars

\* Any sequence of calls on the schedules of one connection.
SchedSpecInit ==
    /\ SchedInit
    /\ DrvIdle
    /\ CallIdle
    /\ IssIdle
    /\ pc = "api"

SchedSpec == SchedSpecInit /\ [][SchedNext]_vars

(***************************************************************************)
(* NonceSpec: derive_nonce called on its own.  The model's integers hold   *)
(* sequence numbers below 2^31, so the upper bytes of the counter are 0.   *)
(***************************************************************************)
IvZero == <<0, 0, 0, 0, 0, 0, 0, 0, 0, 0, 0, 0>>
IvMixed == <<170, 85, 15, 240, 1, 128, 255, 0, 51, 204, 127, 254>>
NonceIvs == {IvA, IvB, IvZero, IvMixed}
NonceSeqs == {0, 1, 5, 127, 128, 255, 256, 257, 65535, 65536, 16777215,
              16777216, 305419896, 2147483647}

NonceInit ==
    /\ SchedInit
    /\ DrvIdle
    /\ IssIdle
    /\ pc = "derive_nonce"
    /\ args \in [iv : NonceIvs, seq_num : NonceSeqs]
    /\ ret = << >>

CallDeriveNonce ==
    /\ pc = "derive_nonce"
    /\ ret' = derive_nonce(args.iv, args.seq_num)
    /\ pc' = "returned"
    /\ UNCHANGED <<args, schedVars, drvVars, issVars>>

NonceNext == CallDeriveNonce

NonceSpec == NonceInit /\ [][NonceNext]_vars

(***************************************************************************)
(* RecSpec: one record sealed by encrypt_tls_plaintext on a writer's       *)
(* schedule and then opened by decrypt_tls_encrypted on a reader's.        *)
(***************************************************************************)
\* A client's schedule once the handshake keys are derived, about to seal
\* its record number write_seq_num.
WriterSchedule(write_seq_num) ==
    LET k0 == add_transcript(HandshakeKeySchedule_new,
                             <<ClientHelloMsg(ClientPub),
                               ServerHelloMsg(<<KeyShareExt(GoodPub)>>)>>)
    IN  [update_handshake_secret(k0, GoodPub).ks EXCEPT
           !.write_seq_num = write_seq_num]

\* The schedule of the peer that reads what w writes: its read key and IV
\* are w's write key and IV, and it has opened read_seq_num records.
ReaderSchedule(w, read_seq_num) ==
    [w EXCEPT !.server_write_key = w.client_write_key,
              !.server_write_iv = w.client_write_iv,
              !.client_write_key = w.server_write_key,
              !.client_write_iv = w.server_write_iv,
              !.read_seq_num = read_seq_num,
              !.write_seq_num = 0]

RecHdrs == {Hdr(CtApplicationData, Tls12, 23), Hdr(CtHandshake, Tls12, 23)}
RecPts == {AppData(5), InnerPlaintext(<<EncryptedExtensionsMsg>>, CtHandshake, 0)}
Tampers == {"none", "ciphertext", "tag"}

\* The record body as it reaches the reader.
Tampered(ct, tag, how) ==
    CASE how = "ciphertext" -> <<[ct EXCEPT ![5] = 1], tag>>
      [] how = "tag" -> <<ct, [tag EXCEPT ![6] = 1]>>
      [] OTHER -> <<ct, tag>>

RecArgs ==
    { [writer |-> WriterSchedule(sw),
       reader |-> ReaderSchedule(WriterSchedule(sw), sr),
       hdr_w |-> hw, hdr_r |-> hr, pt |-> pt, tamper |-> how] :
        sw \in 0 .. SeqMax, sr \in 0 .. SeqMax, hw \in RecHdrs, hr \in RecHdrs,
        pt \in RecPts, how \in Tampers }

RecInit ==
    /\ ks = HandshakeKeySchedule_new
    /\ build \in Builds
    /\ sealLog = {}
    /\ openLog = {}
    /\ sealReuse = FALSE
    /\ openReuse = FALSE
    /\ agreements = 0
    /\ lastRes = "none"
    /\ DrvIdle
    /\ IssIdle
    /\ pc = "seal"
    /\ args \in RecArgs
    /\ prf \in OracleExt(<< >>, {args.writer.client_write_iv})
    /\ ret = << >>

RecSeal ==
    /\ pc = "seal"
    /\ LET r == encrypt_tls_plaintext(args.writer, prf, build, args.hdr_w, args.pt)
       IN  /\ ret' = <<r>>
           /\ pc' = IF r.res = "ok" THEN "open" ELSE "returned"
    /\ UNCHANGED <<args, schedVars, drvVars, issVars>>

RecOpen ==
    /\ pc = "open"
    /\ LET wire == Tampered(ret[1].ct, ret[1].tag, args.tamper)
           r == decrypt_tls_encrypted(args.reader, prf, build, args.hdr_r, wire)
       IN  ret' = Append(ret, r)
    /\ pc' = "returned"
    /\ UNCHANGED <<args, schedVars, drvVars, issVars>>

RecNext ==
    \/ RecSeal
    \/ RecOpen

RecSpec == RecInit /\ [][RecNext]_vars

(***************************************************************************)
(* IssuerSpec: the issuer thread of server/src/main.rs and the peers that  *)
(* connect to localhost:8080.  A peer writes its request when it connects  *)
(* and then either keeps its end open, reading to the end of the stream,   *)
(* or closes.                                                              *)
(***************************************************************************)
MaxConns == 3

\* 0usize.to_be_bytes().len() on a 64-bit target
UsizeBytes == 8

\* csr.len().to_be_bytes()
UsizeBe(n) == <<"be", n, UsizeBytes>>

\* A mutant of Request: the length written is one less than the request's.
Request_short(csr) == <<UsizeBe(ByteLen(csr) - 1)>> \o csr

\* tpm.rs get_client_cert lines 37-38: the length, then the request.
Request(csr) == <<UsizeBe(ByteLen(csr))>> \o csr

\* What a peer writes and whether it stays to read the answer: the client's
\* request; a request for another name and key; a request whose signature
\* was made with another key than the one it carries; bytes that are no
\* request; the client's request from a peer that then closes; a peer that
\* closes within the length; a peer that closes within the request.
PeerScripts ==
    { [bytes |-> Request(ClientCsr), stays |-> TRUE],
      [bytes |-> Request(<<CertReq("CN=other", OtherKey, OtherKey, 650)>>), stays |-> TRUE],
      [bytes |-> Request(<<CertReq(ClientSubject, TpmKey, OtherKey, 700)>>), stays |-> TRUE],
      [bytes |-> Request(JunkBody), stays |-> TRUE],
      [bytes |-> Request(ClientCsr), stays |-> FALSE],
      [bytes |-> << <<"junk", 3>> >>, stays |-> FALSE],
      [bytes |-> <<UsizeBe(700)>> \o JunkBody, stays |-> FALSE] }

IssuerInit ==
    /\ SchedInit
    /\ build = "checked"
    /\ DrvIdle
    /\ CallIdle
    /\ IssIdle
    /\ pc = "issuer"

\* A peer connects and writes.  The connection waits in the listener's
\* backlog; it is refused when the listener is gone.
PeerConnect ==
    /\ Len(conns) < MaxConns
    /\ \E s \in PeerScripts :
         conns' = Append(conns,
                         [req |-> s.bytes, c2s |-> s.bytes, client_open |-> s.stays,
                          s2c |-> << >>,
                          state |-> IF iss.pc = "dead" THEN "refused" ELSE "queued",
                          res |-> "none"])
    /\ UNCHANGED <<iss, pc, stream, schedVars, drvVars, callVars>>

\* The connections a panic of the issuer thread ends: the one it holds is
\* dropped and, the listener being dropped with the thread, the queued ones
\* are reset.
Panicked(cs, cur) ==
    [i \in 1 .. Len(cs) |->
        IF i = cur THEN [cs[i] EXCEPT !.state = "aborted", !.res = "transport"]
        ELSE IF cs[i].state = "queued" THEN [cs[i] EXCEPT !.state = "reset"]
        ELSE cs[i]]

IssPanic ==
    /\ iss' = [iss EXCEPT !.pc = "dead", !.died_on = iss.cur]
    /\ conns' = Panicked(conns, iss.cur)

\* start_cert_issuer lines 86-90: listener.incoming() yields the next
\* connection.
IssAccept ==
    /\ iss.pc = "accept"
    /\ \E i \in 1 .. Len(conns) :
         /\ conns[i].state = "queued"
         /\ \A j \in 1 .. i - 1 : conns[j].state /= "queued"
         /\ iss' = [iss EXCEPT !.pc = "read_size", !.cur = i, !.size = 0,
                               !.buffer = << >>]
         /\ conns' = [conns EXCEPT ![i].state = "open"]
    /\ UNCHANGED <<pc, stream, schedVars, drvVars, callVars>>

\* start_cert_issuer lines 91-94: read_exact of the length, unwrap,
\* usize::from_be_bytes.  read_exact waits while the peer is open and has
\* not sent enough.
IssReadSize ==
    /\ iss.pc = "read_size"
    /\ LET c == conns[iss.cur]
       IN  IF ByteLen(c.c2s) >= UsizeBytes
           THEN /\ iss' = [iss EXCEPT !.pc = "read_csr", !.size = Head(c.c2s)[2]]
                /\ conns' = [conns EXCEPT ![iss.cur].c2s = Tail(c.c2s)]
           ELSE /\ ~c.client_open
                /\ IssPanic
    /\ UNCHANGED <<pc, stream, schedVars, drvVars, callVars>>

\* A mutant of IssReadCsr: the request is read to the end of the stream, so
\* that the read returns only when the peer has closed.
IssReadCsr_to_end ==
    /\ iss.pc = "read_csr"
    /\ LET c == conns[iss.cur]
       IN  /\ ~c.client_open
           /\ IF ByteLen(c.c2s) >= iss.size
              THEN /\ iss' = [iss EXCEPT !.pc = "sign_csr",
                                         !.buffer = TakeBytes(c.c2s, iss.size)]
                   /\ conns' = [conns EXCEPT ![iss.cur].c2s = DropBytes(c.c2s, iss.size)]
              ELSE IssPanic
    /\ UNCHANGED <<pc, stream, schedVars, drvVars, callVars>>

\* start_cert_issuer lines 95-97: buffer.resize(size, 0), read_exact of the
\* request, unwrap.
IssReadCsr ==
    /\ iss.pc = "read_csr"
    /\ LET c == conns[iss.cur]
       IN  IF ByteLen(c.c2s) >= iss.size
           THEN /\ iss' = [iss EXCEPT !.pc = "sign_csr",
                                      !.buffer = TakeBytes(c.c2s, iss.size)]
                /\ conns' = [conns EXCEPT ![iss.cur].c2s = DropBytes(c.c2s, iss.size)]
           ELSE /\ ~c.client_open
                /\ IssPanic
    /\ UNCHANGED <<pc, stream, schedVars, drvVars, callVars>>

\* start_cert_issuer lines 98-108: sign_csr; Ok: write_all and unwrap, which
\* can fail when the peer has closed; Err: a log line.  Then the stream is
\* dropped and the loop takes the next connection.
IssSignCsr ==
    /\ iss.pc = "sign_csr"
    /\ \E built \in BOOLEAN, written \in BOOLEAN :
         LET signed_csr == sign_csr(iss.buffer, built)
             c == conns[iss.cur]
         IN  /\ written \/ ~c.client_open
             /\ IF signed_csr.ok /\ ~written
                THEN IssPanic
                ELSE /\ iss' = [iss EXCEPT !.pc = "accept"]
                     /\ conns' = [conns EXCEPT
                                    ![iss.cur].s2c = IF signed_csr.ok THEN signed_csr.der
                                                     ELSE << >>,
                                    ![iss.cur].state = "closed",
                                    ![iss.cur].res = IF signed_csr.ok THEN "issued"
                                                     ELSE "sign_error"]
    /\ UNCHANGED <<pc, stream, schedVars, drvVars, callVars>>

IssuerNext ==
    \/ PeerConnect
    \/ IssAccept
    \/ IssReadSize
    \/ IssReadCsr
    \/ IssSignCsr

IssuerSpec == IssuerInit /\ [][IssuerNext]_vars

(***************************************************************************)
(* EnrollSpec: get_client_cert of tpm.rs, after tpm_generate_csr has       *)
(* returned, run against the issuer thread, with other peers connecting    *)
(* to the issuer before or after it.                                       *)
(***************************************************************************)
\* The peers that connect besides the client.
MaxOtherPeers == 1

EnrollInit ==
    /\ SchedInit
    /\ build = "checked"
    /\ DrvIdle
    /\ CallIdle
    /\ IssIdle
    /\ pc = "enroll_connect"

\* Another peer connects and writes, as in PeerConnect.
EnrollPeerConnect ==
    /\ Len(conns) - (IF stream > 0 THEN 1 ELSE 0) < MaxOtherPeers
    /\ \E s \in PeerScripts :
         conns' = Append(conns,
                         [req |-> s.bytes, c2s |-> s.bytes, client_open |-> s.stays,
                          s2c |-> << >>,
                          state |-> IF iss.pc = "dead" THEN "refused" ELSE "queued",
                          res |-> "none"])
    /\ UNCHANGED <<iss, pc, stream, schedVars, drvVars, callVars>>

\* tpm.rs get_client_cert line 35: TcpStream::connect, which is refused when
\* the listener is gone and otherwise returns with the connection in the
\* listener's backlog.
EnrollConnect ==
    /\ pc = "enroll_connect"
    /\ stream' = Len(conns) + 1
    /\ conns' = Append(conns,
                       [req |-> << >>, c2s |-> << >>, client_open |-> TRUE,
                        s2c |-> << >>,
                        state |-> IF iss.pc = "dead" THEN "refused" ELSE "queued",
                        res |-> "none"])
    /\ pc' = IF iss.pc = "dead" THEN "enroll_err" ELSE "enroll_write_len"
    /\ UNCHANGED <<iss, schedVars, drvVars, callVars>>

\* write_all on the client's stream: the bytes reach the issuer's side; on
\* a connection the issuer's end of which is gone the write fails or its
\* bytes are dropped.
EnrollWrite(bytes, next) ==
    LET c == conns[stream]
    IN  IF c.state \in {"reset", "aborted"}
        THEN /\ pc' \in {"enroll_err", next}
             /\ conns' = conns
        ELSE /\ pc' = next
             /\ conns' = [conns EXCEPT ![stream].req = c.req \o bytes,
                                       ![stream].c2s = c.c2s \o bytes]

\* tpm.rs get_client_cert line 37: the length of the request is written.
EnrollWriteLen ==
    /\ pc = "enroll_write_len"
    /\ EnrollWrite(<<UsizeBe(ByteLen(ClientCsr))>>, "enroll_write_csr")
    /\ UNCHANGED <<iss, stream, schedVars, drvVars, callVars>>

\* tpm.rs get_client_cert lines 38-39: the request is written; the stream
\* stays open in both directions.
EnrollWriteCsr ==
    /\ pc = "enroll_write_csr"
    /\ EnrollWrite(ClientCsr, "enroll_read")
    /\ UNCHANGED <<iss, stream, schedVars, drvVars, callVars>>

\* tpm.rs get_client_cert lines 40-46: read_to_end returns when the issuer's
\* end has been closed, with what the issuer wrote, or has been reset, with
\* an error; then Certificate::from_der of the buffer.
EnrollReadToEnd ==
    /\ pc = "enroll_read"
    /\ LET c == conns[stream]
       IN  /\ c.state \in {"closed", "reset", "aborted"}
           /\ IF c.state = "closed" /\ Certificate_from_der(c.s2c)
              THEN pc' = "enroll_ok" /\ client_cert' = c.s2c
              ELSE pc' = "enroll_err" /\ client_cert' = client_cert
    /\ UNCHANGED <<issVars, schedVars, callVars>>
    /\ UNCHANGED <<sent, server_hello, cert_requested, blob, p, verify_data,
                   fault, faultSent, sh_body, sfTranscript, signLog, rcvd, signing>>

EnrollClient ==
    \/ EnrollConnect
    \/ EnrollWriteLen
    \/ EnrollWriteCsr
    \/ EnrollReadToEnd

IssuerThread ==
    \/ IssAccept
    \/ IssReadSize
    \/ IssReadCsr
    \/ IssSignCsr

EnrollNext ==
    \/ EnrollPeerConnect
    \/ EnrollConnect
    \/ EnrollWriteLen
    \/ EnrollWriteCsr
    \/ EnrollReadToEnd
    \/ IssAccept
    \/ IssReadSize
    \/ IssReadCsr
    \/ IssSignCsr

\* The client process and the issuer thread each take their next step when
\* they have one; other peers connect when they like.
EnrollSpec ==
    EnrollInit /\ [][EnrollNext]_vars /\ WF_vars(EnrollClient) /\ WF_vars(IssuerThread)

(***************************************************************************)
(* HKDF-SHA256 of ring on bytes: SHA-256 (FIPS 180-4), HMAC (RFC 2104),    *)
(* HKDF (RFC 5869).  A 32-bit word is the pair of its 16-bit halves, high  *)
(* half first.                                                             *)
(***************************************************************************)
\* a & b on the low n bits.
RECURSIVE AndBits(_, _, _)
AndBits(a, b, n) ==
    IF n = 0 THEN 0
    ELSE ((a % 2) * (b % 2)) + 2 * AndBits(a \div 2, b \div 2, n - 1)

\* The AND of two nibbles, tabulated like their XOR.
AndNibble[a \in 0 .. 15, b \in 0 .. 15] == AndBits(a, b, 4)

\* ^ and & on u16, nibble by nibble.
Xor16(a, b) ==
    4096 * XorNibble[a \div 4096, b \div 4096]
    + 256 * XorNibble[(a \div 256) % 16, (b \div 256) % 16]
    + 16 * XorNibble[(a \div 16) % 16, (b \div 16) % 16]
    + XorNibble[a % 16, b % 16]
And16(a, b) ==
    4096 * AndNibble[a \div 4096, b \div 4096]
    + 256 * AndNibble[(a \div 256) % 16, (b \div 256) % 16]
    + 16 * AndNibble[(a \div 16) % 16, (b \div 16) % 16]
    + AndNibble[a % 16, b % 16]

WordXor(a, b) == <<Xor16(a[1], b[1]), Xor16(a[2], b[2])>>
WordAnd(a, b) == <<And16(a[1], b[1]), And16(a[2], b[2])>>
WordNot(a) == <<65535 - a[1], 65535 - a[2]>>

\* wrapping_add on u32
WordAdd(a, b) ==
    LET lo == a[2] + b[2]
    IN  <<(a[1] + b[1] + (lo \div 65536)) % 65536, lo % 65536>>

\* rotate_right and >> on u32
RECURSIVE RotR(_, _)
RotR(w, n) ==
    IF n >= 16 THEN RotR(<<w[2], w[1]>>, n - 16)
    ELSE IF n = 0 THEN w
    ELSE LET m == Pow2(n)
             k == Pow2(16 - n)
         IN  <<(w[1] \div m) + (w[2] % m) * k, (w[2] \div m) + (w[1] % m) * k>>

ShR(w, n) ==
    LET m == Pow2(n)
        k == Pow2(16 - n)
    IN  <<w[1] \div m, (w[2] \div m) + (w[1] % m) * k>>

Sha256K ==
    <<<<17034, 12184>>, <<28983, 17553>>, <<46528, 64463>>, <<59829, 56229>>,
      <<14678, 49755>>, <<23025, 4593>>, <<37439, 33444>>, <<43804, 24277>>,
      <<55303, 43672>>, <<4739, 23297>>, <<9265, 34238>>, <<21772, 32195>>,
      <<29374, 23924>>, <<32990, 45566>>, <<39900, 1703>>, <<49563, 61812>>,
      <<58523, 27073>>, <<61374, 18310>>, <<4033, 40390>>, <<9228, 41420>>,
      <<11753, 11375>>, <<19060, 33962>>, <<23728, 43484>>, <<30457, 35034>>,
      <<38974, 20818>>, <<43057, 50797>>, <<45059, 10184>>, <<48985, 32711>>,
      <<50912, 3059>>, <<54695, 37191>>, <<1738, 25425>>, <<5161, 10599>>,
      <<10167, 2693>>, <<11803, 8504>>, <<19756, 28156>>, <<21304, 3347>>,
      <<25866, 29524>>, <<30314, 2747>>, <<33218, 51502>>, <<37490, 11397>>,
      <<41663, 59553>>, <<43034, 26187>>, <<49739, 35696>>, <<51052, 20899>>,
      <<53650, 59417>>, <<54937, 1572>>, <<62478, 13701>>, <<4202, 41072>>,
      <<6564, 49430>>, <<7735, 27656>>, <<10056, 30540>>, <<13488, 48309>>,
      <<14620, 3251>>, <<20184, 43594>>, <<23452, 51791>>, <<26670, 28659>>,
      <<29839, 33518>>, <<30885, 25455>>, <<33992, 30740>>, <<36039, 520>>,
      <<37054, 65530>>, <<42064, 27883>>, <<48889, 41975>>, <<50801, 30962>>>>

Sha256H0 ==
    <<<<27145, 58983>>, <<47975, 44677>>, <<15470, 62322>>, <<42319, 62778>>,
      <<20750, 21119>>, <<39685, 26764>>, <<8067, 55723>>, <<23520, 52505>>>>

Ch(x, y, z) == WordXor(WordAnd(x, y), WordAnd(WordNot(x), z))
Maj(x, y, z) == WordXor(WordXor(WordAnd(x, y), WordAnd(x, z)), WordAnd(y, z))
BigSigma0(x) == WordXor(WordXor(RotR(x, 2), RotR(x, 13)), RotR(x, 22))
BigSigma1(x) == WordXor(WordXor(RotR(x, 6), RotR(x, 11)), RotR(x, 25))
SmallSigma0(x) == WordXor(WordXor(RotR(x, 7), RotR(x, 18)), ShR(x, 3))
SmallSigma1(x) == WordXor(WordXor(RotR(x, 17), RotR(x, 19)), ShR(x, 10))

\* The message schedule: w holds the words 1 .. t - 1 of the 64.
RECURSIVE Schedule(_, _)
Schedule(w, t) ==
    IF Len(w) >= 64 THEN w
    ELSE Schedule(Append(w, WordAdd(WordAdd(SmallSigma1(w[t - 2]), w[t - 7]),
                                    WordAdd(SmallSigma0(w[t - 15]), w[t - 16]))),
                  t + 1)

\* Rounds t .. 64 on the working variables a .. h.
RECURSIVE Rounds(_, _, _)
Rounds(st, w, t) ==
    IF t > 64 \/ Len(st) /= 8 THEN st
    ELSE LET t1 == WordAdd(WordAdd(WordAdd(WordAdd(st[8], BigSigma1(st[5])),
                                           Ch(st[5], st[6], st[7])),
                                   Sha256K[t]), w[t])
             t2 == WordAdd(BigSigma0(st[1]), Maj(st[1], st[2], st[3]))
         IN  Rounds(<<WordAdd(t1, t2), st[1], st[2], st[3],
                      WordAdd(st[4], t1), st[5], st[6], st[7]>>, w, t + 1)

\* The 16 big-endian words of a 64-byte block.
BlockWords(block) ==
    [i \in 1 .. 16 |-> <<256 * block[4 * i - 3] + block[4 * i - 2],
                         256 * block[4 * i - 1] + block[4 * i]>>]

Compress(h, block) ==
    LET w == Schedule(BlockWords(block), 17)
        st == Rounds(h, w, 1)
    IN  <<WordAdd(h[1], st[1]), WordAdd(h[2], st[2]), WordAdd(h[3], st[3]),
          WordAdd(h[4], st[4]), WordAdd(h[5], st[5]), WordAdd(h[6], st[6]),
          WordAdd(h[7], st[7]), WordAdd(h[8], st[8])>>

\* The message with its padding: 0x80, zeros, the bit length in 8 bytes.
ZeroBytes(n) == [i \in 1 .. n |-> 0]
Sha256Padded(msg) ==
    msg \o <<128>> \o ZeroBytes((119 - (Len(msg) % 64)) % 64) \o BeBytes(8 * Len(msg), 8)

RECURSIVE WordBytes(_)
WordBytes(ws) ==
    IF ws = << >> THEN << >>
    ELSE <<Head(ws)[1] \div 256, Head(ws)[1] % 256,
           Head(ws)[2] \div 256, Head(ws)[2] % 256>> \o WordBytes(Tail(ws))

\* ring::hmac with HMAC_SHA256: the key of at most one block, zero-padded
\* to 64 bytes and XORed with the pad byte (0x36 inner, 0x5c outer).
HmacPad(key, pad) ==
    LET block == key \o ZeroBytes(64 - Len(key))
    IN  [i \in 1 .. 64 |-> XorByte(block[i], pad)]

(***************************************************************************)
(* LabelSpec: HkdfLabel::to_bytes and HKDF::derive_empty_secret on byte    *)
(* strings, each called on its own.  derive_empty_secret runs as the five  *)
(* SHA-256 computations of its HKDF-Extract, its empty hash and its        *)
(* HKDF-Expand, one 64-byte block per step.                                *)
(***************************************************************************)
\* "tls13 " and the labels of the key schedule as UTF-8 bytes.
Tls13Prefix == <<116, 108, 115, 49, 51, 32>>
LabelDerived == <<100, 101, 114, 105, 118, 101, 100>>
LabelKey == <<107, 101, 121>>
LabelIv == <<105, 118>>
LabelFinished == <<102, 105, 110, 105, 115, 104, 101, 100>>

\* `n as u8`
AsU8(n) == n % 256

\* A mutant of to_bytes: the label without its "tls13 " prefix.
to_bytes_noprefix(hkdf_label) ==
    BeBytes(hkdf_label.length, 2)
    \o <<AsU8(Len(hkdf_label.label))>>
    \o hkdf_label.label
    \o <<AsU8(Len(hkdf_label.context))>>
    \o hkdf_label.context

\* key-schedule.rs HkdfLabel::to_bytes of HkdfLabel::new(length, label,
\* context), label and context being byte strings.
to_bytes(hkdf_label) ==
    LET tls13_label == Tls13Prefix \o hkdf_label.label
    IN  BeBytes(hkdf_label.length, 2)
        \o <<AsU8(Len(tls13_label))>>
        \o tls13_label
        \o <<AsU8(Len(hkdf_label.context))>>
        \o hkdf_label.context

MaxLabelLen == 250
MaxContextLen == 256

\* A label of n lower-case letters and a context of n bytes.
LettersOf(n) == [i \in 1 .. n |-> 97 + (i % 26)]
BytesOf(n) == [i \in 1 .. n |-> (7 * i) % 256]

LabelLengths == {0, 12, 16, 32, 255, 256, 65535}
LabelStrs ==
    {LabelDerived, LabelKey, LabelIv, LabelFinished}
    \cup {LettersOf(n) : n \in {0, MaxLabelLen - 1, MaxLabelLen}}
LabelContexts == {BytesOf(n) : n \in {0, 32, MaxContextLen - 1, MaxContextLen}}

LabelInit ==
    /\ SchedInit
    /\ build = "checked"
    /\ DrvIdle
    /\ IssIdle
    /\ pc \in {"to_bytes", "derive_empty_secret"}
    /\ args \in IF pc = "to_bytes"
                THEN [length : LabelLengths, label : LabelStrs,
                      context : LabelContexts]
                ELSE {<< >>}
    /\ ret = << >>

CallToBytes ==
    /\ pc = "to_bytes"
    /\ ret' = to_bytes(args)
    /\ pc' = "returned"
    /\ UNCHANGED <<args, schedVars, drvVars, issVars>>

\* A SHA-256 computation about to start on msg.
HashOf(msg, vals) == [h |-> Sha256H0, data |-> Sha256Padded(msg), vals |-> vals]

HashStages ==
    {"extract_inner", "extract_outer", "empty_hash", "expand_inner", "expand_outer"}

\* key-schedule.rs HKDF::derive_empty_secret line 76: HKDF::extract of 32
\* zero bytes with a salt of 32 zero bytes starts with the inner hash of the
\* HMAC keyed with the salt.
CallDeriveEmptySecret ==
    /\ pc = "derive_empty_secret"
    /\ ret' = HashOf(HmacPad(ZeroBytes(32), 54) \o ZeroBytes(32), << >>)
    /\ pc' = "extract_inner"
    /\ UNCHANGED <<args, schedVars, drvVars, issVars>>

\* One block of the running SHA-256 computation.
HashBlock ==
    /\ pc \in HashStages
    /\ ret.data /= << >>
    /\ ret' = [ret EXCEPT !.h = Compress(ret.h, SubSeq(ret.data, 1, 64)),
                          !.data = SubSeq(ret.data, 65, Len(ret.data))]
    /\ UNCHANGED <<pc, args, schedVars, drvVars, issVars>>

\* The running computation is complete.  derive_empty_secret lines 76-80:
\* the outer hash of the extract gives the PRK (vals[1]); then empty_hash;
\* then expand_label of the label "derived" with empty_hash as context,
\* whose 32 bytes are the first block T(1) = HMAC(PRK, info || 0x01) of
\* HKDF-Expand.
HashFinish ==
    /\ pc \in HashStages
    /\ ret.data = << >>
    /\ LET digest == WordBytes(ret.h)
       IN  CASE pc = "extract_inner" ->
                  /\ ret' = HashOf(HmacPad(ZeroBytes(32), 92) \o digest, << >>)
                  /\ pc' = "extract_outer"
             [] pc = "extract_outer" ->
                  /\ ret' = HashOf(<< >>, <<digest>>)
                  /\ pc' = "empty_hash"
             [] pc = "empty_hash" ->
                  /\ ret' = HashOf(HmacPad(ret.vals[1], 54)
                                   \o to_bytes(HkdfLabel(32, LabelDerived, digest))
                                   \o <<1>>,
                                   ret.vals)
                  /\ pc' = "expand_inner"
             [] pc = "expand_inner" ->
                  /\ ret' = HashOf(HmacPad(ret.vals[1], 92) \o digest, ret.vals)
                  /\ pc' = "expand_outer"
             [] pc = "expand_outer" ->
                  /\ ret' = SubSeq(digest, 1, 32)
                  /\ pc' = "derived"
    /\ UNCHANGED <<args, schedVars, drvVars, issVars>>

LabelNext ==
    \/ CallToBytes
    \/ CallDeriveEmptySecret
    \/ HashBlock
    \/ HashFinish

LabelSpec == LabelInit /\ [][LabelNext]_vars

(***************************************************************************)
(* Properties.                                                             *)
(***************************************************************************)
\* C1 (as stated), under SchedSpec: both sequence counters are 0 when a
\* phase's schedule is created (the initial handshake schedule, and the
\* schedule after the step that turns it into an application schedule), and
\* within a phase no step ever moves a counter to a value that is not above
\* the one it had.
C1_CountersStartAtZeroAndIncrease ==
    /\ ks.read_seq_num = 0
    /\ ks.write_seq_num = 0
    /\ [][IF ks'.kind /= ks.kind
          THEN ks'.read_seq_num = 0 /\ ks'.write_seq_num = 0
          ELSE /\ ks'.read_seq_num >= ks.read_seq_num
               /\ ks'.write_seq_num >= ks.write_seq_num]_vars

\* C2 (as stated), under SchedSpec: no record is sealed with a nonce that an
\* earlier record was sealed with under the same write key, and no record is
\* opened with a nonce that an earlier record was opened with under the same
\* read key.
C2_NoNonceReuse == ~sealReuse /\ ~openReuse

\* Bit b of byte x.
Bit(x, b) == (x \div Pow2(b)) % 2

\* n with its k low-order bytes dropped.
RECURSIVE DropLowBytes(_, _)
DropLowBytes(n, k) == IF k = 0 THEN n ELSE DropLowBytes(n \div 256, k - 1)

\* s big-endian in 8 bytes, left-padded with four zero bytes.
PaddedSeq(s) ==
    [i \in 1 .. 12 |-> IF i <= 4 THEN 0 ELSE DropLowBytes(s, 12 - i) % 256]

\* C3, under NonceSpec: derive_nonce(iv, s) is a 12-byte string, and every
\* bit of its byte i is the XOR of that bit of iv[i] and of p[i], where p is
\* s big-endian in 8 bytes behind four zero bytes; and the IV 00 01 .. 0B
\* with s = 5 gives 00 01 02 03 04 05 06 07 08 09 0A 0E.
C3_DeriveNonce ==
    pc = "returned" =>
        /\ DOMAIN ret = 1 .. 12
        /\ \A i \in 1 .. 12 :
              /\ ret[i] \in Byte
              /\ \A b \in 0 .. 7 :
                    Bit(ret[i], b) =
                        (Bit(args.iv[i], b) + Bit(PaddedSeq(args.seq_num)[i], b)) % 2
        /\ (args.iv = <<0, 1, 2, 3, 4, 5, 6, 7, 8, 9, 10, 11>> /\ args.seq_num = 5)
              => ret = <<0, 1, 2, 3, 4, 5, 6, 7, 8, 9, 10, 14>>

\* C3's case: the nonce of the IV 00 01 .. 0B and sequence number 5 was
\* derived.
C3_Witness ==
    /\ pc = "returned"
    /\ args.iv = <<0, 1, 2, 3, 4, 5, 6, 7, 8, 9, 10, 11>>
    /\ args.seq_num = 5
    /\ ret[12] = 14

\* The handshake messages of a decrypted flight b up to and including the
\* Finished that process_finished took: EncryptedExtensions, the optional
\* CertificateRequest, Certificate, CertificateVerify, Finished.
FlightThroughFinished(b) ==
    SubSeq(b, 1, IF b[2][2] = "certificate_request" THEN 5 ELSE 4)

\* ClientHello body, ServerHello body and the server flight through
\* Finished.
ThroughServerFinished ==
    <<ClientHelloMsg(ClientPub)>> \o sh_body \o FlightThroughFinished(blob)

\* C4 (as stated), under Spec: when on_server_finished is invoked the
\* transcript is exactly the ClientHello body, the ServerHello body and the
\* handshake messages of the decrypted server flight through the server
\* Finished, and nothing else.
C4_TranscriptAtServerFinished ==
    sfTranscript /= << >> => sfTranscript = ThroughServerFinished

\* The finished key: Expand-Label(client handshake traffic secret,
\* "finished", "", 32), the secret being that of the handshake secret agreed
\* with the server's key share and of the hash of ClientHello and ServerHello.
ClientFinishedKey ==
    LET prk == HkdfExtract(X25519(GoodPub), derive_empty_secret)
        c_hs == expand_label(prk, HkdfLabel(32, "c hs traffic",
                        Sha256(<<ClientHelloMsg(ClientPub)>> \o sh_body)))
    IN  expand_label(HkdfNew(c_hs), HkdfLabel(32, "finished", Empty))

\* The verify_data in the client Finished record on the wire: the body of
\* the handshake message sealed in the last record sent.
SentVerifyData == sent[Len(sent)].body[1][4][1][3]

\* The client's Certificate and CertificateVerify as they follow the server
\* flight when a certificate was requested.
ClientAuthMessages ==
    IF cert_requested
    THEN <<ClientCertificateMsg(client_cert),
           CertificateVerifyMsg(<<"sig",
               <<"signing_input", 64, "TLS 1.3, client CertificateVerify",
                 Sha256(ThroughServerFinished \o <<ClientCertificateMsg(client_cert)>>)>> >>)>>
    ELSE << >>

Front(seq) == SubSeq(seq, 1, Len(seq) - 1)

\* The verify-data of a transcript t under the handshake schedule k.
VerifyDataOver(k, t) ==
    HmacSha256(expand_label(HkdfNew(k.client_handshake_traffic_secret),
                            HkdfLabel(32, "finished", Empty)),
               Sha256(t))

\* C6, under Spec: once send_client_finished has computed the verify-data
\* and before it sends the Finished, the verify-data is that of the
\* transcript as it stands, which does not end with the Finished; when
\* into_application_key_schedule is about to be invoked the schedule is
\* still the handshake schedule and its transcript is the one the
\* verify-data was computed from followed by the Finished message; and the
\* transcript of an application schedule has the Finished message in it,
\* followed only by the raw verify-data.
C6_FinishedOrdering ==
    /\ pc = "send_finished_message" =>
          /\ ks.kind = "handshake"
          /\ verify_data = VerifyDataOver(ks, ks.transcript)
          /\ ks.transcript[Len(ks.transcript)] /= FinishedMsg(verify_data)
    /\ pc = "into_application" =>
          /\ ks.kind = "handshake"
          /\ ks.transcript[Len(ks.transcript)] = FinishedMsg(verify_data)
          /\ verify_data = VerifyDataOver(ks, Front(ks.transcript))
    /\ ks.kind = "application" =>
          /\ Len(ks.transcript) >= 2
          /\ ks.transcript[Len(ks.transcript) - 1] = FinishedMsg(verify_data)
          /\ ks.transcript[Len(ks.transcript)] = <<"raw", verify_data>>

\* C6's case: send_client_finished ran to its end and the application
\* schedule was returned.
C6_Witness ==
    /\ pc = "established"
    /\ ks.kind = "application"
    /\ verify_data /= Empty

\* C7, under SchedSpec: in every reachable state the ephemeral private key
\* has taken part in at most one X25519 agreement.
C7_AtMostOneAgreement == agreements <= 1

\* C7's case: update_handshake_secret was called again after the key had
\* been consumed by an agreement (the call panicked, with no counter at its
\* maximum).
C7_Witness ==
    /\ agreements = 1
    /\ pc = "panicked"
    /\ ~ks.my_private_key
    /\ ks.read_seq_num < SeqMax
    /\ ks.write_seq_num < SeqMax

\* C8 (as stated), under Spec: once a received record failed to parse,
\* failed to open or had an unexpected content type, the handshake is never
\* established and no further record is sent.
C8_FailureIsFatal ==
    fault /= "none" =>
        /\ pc \notin {"established", "done"}
        /\ ks.kind = "handshake"
        /\ Len(sent) = faultSent

\* The case of C9: the record was sealed and then opened by a reader with
\* the writer's key and IV, a read counter equal to the writer's write
\* counter, the same header, and the sealed bytes as they were.
MatchingOpen ==
    /\ pc = "returned"
    /\ Len(ret) = 2
    /\ args.reader.server_write_key = args.writer.client_write_key
    /\ args.reader.server_write_iv = args.writer.client_write_iv
    /\ args.reader.read_seq_num = args.writer.write_seq_num
    /\ args.hdr_r = args.hdr_w
    /\ args.tamper = "none"

\* C9, under RecSpec: opening what encrypt_tls_plaintext produced, with the
\* same key and IV, an equal sequence counter and the same header, succeeds
\* and returns the original plaintext.
C9_RoundTrip ==
    MatchingOpen => ret[2].res = "ok" /\ ret[2].plain = args.pt

\* C9's case: a record sealed at a nonzero write counter was opened by a
\* matching reader.
C9_Witness ==
    /\ MatchingOpen
    /\ args.writer.write_seq_num = 1
    /\ ret[1].res = "ok"
    /\ ret[2].res = "ok"

\* The case of C10: the record was sealed and then opened with a
\* ciphertext, a header or a read counter that differs from the sealed
\* bytes, the header or the write counter of the seal.
MismatchedOpen ==
    /\ pc = "returned"
    /\ Len(ret) = 2
    /\ \/ args.tamper /= "none"
       \/ args.hdr_r /= args.hdr_w
       \/ args.reader.read_seq_num /= args.writer.write_seq_num

C11_ShortRecordRejected ==
    (ks.kind = "handshake" /\ ByteLen(blob) < TagLen + 1) =>
        pc \in {"tpm_generate_csr", "try_sign_csr", "get_client_cert", "start", "wait_sh",
                "expect_key_share", "wait_ccs", "wait_flight",
                "parse_extensions", "failed"}

\* C11's case: a 16-byte record, the tag of an empty plaintext, was opened
\* and then rejected with a parse error.
C11_Witness ==
    /\ pc = "failed"
    /\ fault = "parse"
    /\ ByteLen(blob) = TagLen
    /\ Len(blob) = 1
    /\ blob[1][1] = "tag"

\* C12 (as stated), under SchedSpec: a call of encrypt_tls_plaintext made when
\* the write counter is at its maximum, and a call of decrypt_tls_encrypted
\* made when the read counter is at its maximum, returns an error and leaves
\* the counter where it was instead of wrapping it to 0.
C12_OverflowIsAnError ==
    [][/\ (ApiEncrypt /\ ks.write_seq_num = SeqMax) =>
              (lastRes' = "err" /\ ks'.write_seq_num = SeqMax)
       /\ (ApiDecrypt /\ ks.read_seq_num = SeqMax) =>
              (lastRes' = "err" /\ ks'.read_seq_num = SeqMax)]_vars

MessageTypes(buf) ==
    LET IsHs(tok) == tok[1] = "hs"
        msgs == SelectSeq(buf, IsHs)
    IN  [i \in 1 .. Len(msgs) |-> msgs[i][2]]

\* C19 (as stated), under Spec: start_handshake returns its application
\* schedule only if the decrypted server flight was EncryptedExtensions, an
\* optional CertificateRequest, Certificate, CertificateVerify and Finished,
\* in this order.
C19_EstablishedOnlyAfterOrderedFlight ==
    pc = "established" =>
        MessageTypes(blob) \in
            { <<"encrypted_extensions", "certificate", "certificate_verify",
                "finished">>,
              <<"encrypted_extensions", "certificate_request", "certificate",
                "certificate_verify", "finished">> }

\* C20 (as stated), under Spec: when the ServerHello carried a key_share
\* extension, at whatever position, then by the time the driver is about to
\* read the first encrypted record update_handshake_secret has been invoked
\* with that extension's key-exchange value.
C20_KeyShareLocatedAnywhere ==
    \A i \in 1 .. Len(server_hello) :
        (pc = "wait_flight" /\ server_hello[i][2] = "key_share") =>
            /\ agreements = 1
            /\ ks.handshake_secret = Concat(Empty, X25519(server_hello[i][3]))

\* The handshake message type carried by a record the client sent: the
\* ClientHello in the clear, every later message sealed.
SentType(rec) ==
    IF rec.hdr[2] = CtHandshake THEN rec.body[1][2] ELSE rec.body[1][4][1][2]

\* C15, under Spec: once the signing oracle has returned an error, for the
\* request info of the CSR or for the CertificateVerify input, that
\* invocation is the oracle's last one, the client process has terminated
\* with an error, no CertificateVerify and no Finished is among the records
\* sent, and the schedule has not become an application schedule.
C15_SigningErrorIsFatal ==
    \A i \in 1 .. Len(signLog) :
        ~signLog[i].ok =>
            /\ i = Len(signLog)
            /\ pc = "failed"
            /\ ks.kind = "handshake"
            /\ \A j \in 1 .. Len(sent) :
                   SentType(sent[j]) \notin {"certificate_verify", "finished"}

\* C15's case: the oracle signed the CSR and then returned an error for the
\* CertificateVerify input, after the client Certificate had been sent.
C15_Witness ==
    /\ Len(signLog) = 2
    /\ signLog[1].ok
    /\ ~signLog[2].ok
    /\ signLog[2].msg[1] = "signing_input"
    /\ Len(sent) = 2

\* C15's other case: the oracle returned an error for the CSR.
C15_WitnessCsr ==
    /\ Len(signLog) = 1
    /\ ~signLog[1].ok
    /\ signLog[1].msg = ClientCertReqInfo
    /\ pc = "failed"

\* C16 (as stated), under IssuerSpec: a connection on which sign_csr
\* returned an error, because the request did not parse or the certificate
\* could not be built, has been closed with no byte written to it, and every
\* connection made after it is accepted by the issuer: none is refused and
\* none is reset while it waits in the backlog.
C16_BadCsrClosedAndIssuerServesOn ==
    \A i \in 1 .. Len(conns) :
        conns[i].res = "sign_error" =>
            /\ conns[i].s2c = << >>
            /\ conns[i].state = "closed"
            /\ \A j \in i + 1 .. Len(conns) :
                   conns[j].state \notin {"refused", "reset"}

\* The request a connection's peer wrote after the length.
RequestCsr(c) == Tail(c.req)

\* C17, under IssuerSpec: on every connection the issuer has finished with
\* whose request was a well-formed CSR, either nothing was returned and
\* sign_csr had failed to build the certificate, or exactly one certificate
\* was returned, and its issuer is the CA certificate's subject, its subject
\* and public key are the CSR's, and its signature was made with the CA key.
C17_IssuedCertificateFields ==
    \A i \in 1 .. Len(conns) :
        LET c == conns[i]
            cert_req == CertReq_from_der(RequestCsr(c))
        IN  (c.state = "closed" /\ Len(c.req) > 1 /\ cert_req.ok) =>
                \/ c.res = "sign_error" /\ c.s2c = << >>
                \/ /\ c.res = "issued"
                   /\ Len(c.s2c) = 1
                   /\ c.s2c[1][1] = "x509"
                   /\ c.s2c[1][2] = CaSubject
                   /\ c.s2c[1][3] = cert_req.subject
                   /\ c.s2c[1][4] = cert_req.public_key
                   /\ c.s2c[1][6] = CaKey

\* C17's case: a certificate was issued for a CSR whose subject and key are
\* not the ones of the repository's own client.
C17_Witness ==
    \E i \in 1 .. Len(conns) :
        /\ conns[i].res = "issued"
        /\ CertReq_from_der(RequestCsr(conns[i])).subject = "CN=other"
        /\ conns[i].s2c /= << >>

\* C14 (as stated), under LabelSpec: the bytes to_bytes returns for
\* HkdfLabel::new(length, label, context) are the two bytes of length, most
\* significant first, one byte holding the length of "tls13 " + label, those
\* bytes, one byte holding the length of context, and the context bytes.
C14_InfoEncoding ==
    pc = "returned" =>
        LET tls13_label == Tls13Prefix \o args.label
        IN  /\ ret = <<args.length \div 256, args.length % 256>>
                     \o <<Len(tls13_label)>> \o tls13_label
                     \o <<Len(args.context)>> \o args.context
            /\ \A i \in 1 .. Len(ret) : ret[i] \in Byte

\* C18, under LabelSpec: derive_empty_secret returns the 32 bytes
\* 6F 26 15 A1 08 C7 02 C5 67 8F 54 FC 9D BA B6 97
\* 16 C0 76 18 9C 48 25 0C EB EA C3 57 6C 36 11 BA.
C18_DerivedSecretVector ==
    pc = "derived" =>
        ret = <<111, 38, 21, 161, 8, 199, 2, 197, 103, 143, 84, 252, 157, 186, 182, 151,
                22, 192, 118, 24, 156, 72, 37, 12, 235, 234, 195, 87, 108, 54, 17, 186>>

\* C18's case: derive_empty_secret has returned 32 bytes.
C18_Witness == pc = "derived" /\ Len(ret) = 32

\* C21, under Spec: the step that reads the record after the ServerHello
\* reads one record; when that record's content type is not
\* ChangeCipherSpec the handshake fails, and the handshake goes on to the
\* encrypted flight only when it is ChangeCipherSpec; in either case the
\* schedule (its transcript and both sequence counters) is what it was, and
\* the record's payload is kept nowhere: the decrypted buffer and what was
\* sent are unchanged.
C21_ChangeCipherSpecRequiredAndDiscarded ==
    [][pc = "wait_ccs" =>
          /\ Len(rcvd') = Len(rcvd) + 1
          /\ rcvd'[Len(rcvd')].hdr[2] /= CtChangeCipherSpec => pc' = "failed"
          /\ pc' \in {"wait_flight", "failed"}
          /\ ks'.transcript = ks.transcript
          /\ ks'.read_seq_num = ks.read_seq_num
          /\ ks'.write_seq_num = ks.write_seq_num
          /\ ks' = ks
          /\ UNCHANGED <<blob, p, sent>>]_vars

\* C21's case: a ChangeCipherSpec record was read after the ServerHello and
\* the handshake went on.
C21_Witness ==
    /\ pc = "wait_flight"
    /\ Len(rcvd) = 2
    /\ rcvd[2].hdr[2] = CtChangeCipherSpec
    /\ rcvd[2].body = << <<"ccs", 1>> >>

\* The handshake message types of the records the client wrote, in order.
SentTypes == [i \in 1 .. Len(sent) |-> SentType(sent[i])]

\* a is a prefix of b.
IsPrefix(a, b) == Len(a) <= Len(b) /\ a = SubSeq(b, 1, Len(a))

\* The decrypted server flight held a CertificateRequest.
FlightRequestsCertificate ==
    \E i \in 1 .. Len(MessageTypes(blob)) : MessageTypes(blob)[i] = "certificate_request"

\* What the client writes in a handshake: the ClientHello, then Certificate
\* and CertificateVerify when requested is TRUE, then Finished.
ClientWrites(requested) ==
    <<"client_hello">>
    \o (IF requested THEN <<"certificate", "certificate_verify">> ELSE << >>)
    \o <<"finished">>

\* C22 (as stated), under Spec: the client has written an encrypted record
\* only once the decrypted server flight was processed through the server
\* Finished (the whole buffer consumed, on_server_finished invoked); what it
\* has written is at any time the beginning of: ClientHello, then Certificate
\* and CertificateVerify if and only if the server flight held a
\* CertificateRequest, then Finished; and when send_client_finished has sent
\* the Finished it has written all of it.
C22_ClientWritesAfterFlightInOrder ==
    /\ Len(sent) >= 2 =>
          /\ sfTranscript /= << >>
          /\ p = << >>
          /\ Len(rcvd) >= 3
    /\ IsPrefix(SentTypes, ClientWrites(FlightRequestsCertificate))
    /\ pc \in {"into_application", "established"} =>
          SentTypes = ClientWrites(FlightRequestsCertificate)

\* The application traffic secret of a label, derived as on_server_finished
\* derives it from the hash of the transcript t: the master secret extracted
\* from the "derived" expansion of the handshake PRK, expanded with the
\* label and the hash.
AppTrafficSecret(label, t) ==
    LET prk_hs == HkdfExtract(X25519(GoodPub), derive_empty_secret)
        derived_secret == expand_label(prk_hs, HkdfLabel(32, "derived", Sha256(Empty)))
    IN  expand_label(HkdfExtract(Zeros32, derived_secret),
                     HkdfLabel(32, label, Sha256(t)))

\* C23 (as stated), under Spec: from on_server_finished on, in the handshake
\* schedule and in the application schedule made of it, the server and the
\* client application traffic secrets are those of the hash of ClientHello
\* body, ServerHello body and the server flight through the server Finished,
\* and of nothing else, whatever was added to the transcript afterwards.
C23_AppSecretsFromTranscriptThroughServerFinished ==
    ks.server_application_traffic_secret /= Empty =>
        /\ ks.server_application_traffic_secret =
               AppTrafficSecret("s ap traffic", ThroughServerFinished)
        /\ ks.client_application_traffic_secret =
               AppTrafficSecret("c ap traffic", ThroughServerFinished)

\* The handshake PRK: HKDF-Extract of the X25519 shared secret with the
\* derived empty secret as salt.
PrkHs(server_pub) == HkdfExtract(X25519(server_pub), derive_empty_secret)

SealedMsg(rec) == rec.body[1][4][1]

\* C25 (as stated), under Spec: every record written by
\* send_handshake_tls_message, for a message of n bytes, has the header
\* ApplicationData, TLS 1.2, length n + 1 + 16; the tag was made with this
\* header as associated data; and the body is the n + 1 sealed bytes of the
\* message and the Handshake content-type byte, followed by the 16-byte tag.
C25_WrappedRecordHeader ==
    \A i \in 1 .. Len(sent) :
        sent[i].hdr[2] /= CtHandshake =>
            LET n == TokLen(SealedMsg(sent[i]))
            IN  /\ sent[i].hdr = Hdr(CtApplicationData, Tls12, n + 1 + TagLen)
                /\ Len(sent[i].body) = 2
                /\ sent[i].body[1][1] = "ct"
                /\ sent[i].body[1][4] = <<SealedMsg(sent[i]), <<"ctype", CtHandshake>> >>
                /\ ByteLen(<<sent[i].body[1]>>) = n + 1
                /\ sent[i].body[2][1] = "tag"
                /\ sent[i].body[2][4] = sent[i].hdr
                /\ ByteLen(sent[i].body) = n + 1 + TagLen

\* The server and client handshake write keys of the connection: expanded
\* from the handshake traffic secrets of the hello transcript.
HandshakeWriteKeys ==
    LET hellos == <<ClientHelloMsg(ClientPub)>> \o sh_body
        key(label) == expand_label(
                          HkdfNew(expand_label(PrkHs(GoodPub),
                                               HkdfLabel(32, label, Sha256(hellos)))),
                          HkdfLabel(16, "key", Empty))
    IN  {key("s hs traffic"), key("c hs traffic")}

\* C26, under Spec: once start_handshake has returned, the schedule in use is
\* the application schedule, which holds no handshake secret and no private
\* key, and whose write keys are not the handshake write keys; and the step
\* that reads the first record after the handshake opens it with the key
\* and IV expanded from the server application traffic secret and with the
\* nonce of read sequence number 0, no record having been opened under that
\* key before, and seals nothing.
C26_ApplicationKeysAfterTransition ==
    /\ [](pc \in {"established", "done"} => ks.kind = "application")
    /\ [](ks.kind = "application" =>
             /\ ks.handshake_secret = Empty
             /\ ks.master_secret = Empty
             /\ ks.server_handshake_traffic_secret = Empty
             /\ ks.client_handshake_traffic_secret = Empty
             /\ ~ks.my_private_key
             /\ ks.server_write_key \notin HandshakeWriteKeys
             /\ ks.client_write_key \notin HandshakeWriteKeys)
    /\ [][pc = "established" =>
            LET hkdf == HkdfNew(ks.server_application_traffic_secret)
            IN  /\ ks.server_application_traffic_secret /= Empty
                /\ ks.server_write_key = expand_label(hkdf, HkdfLabel(16, "key", Empty))
                /\ ks.server_write_iv = expand_label(hkdf, HkdfLabel(12, "iv", Empty))
                /\ ks.read_seq_num = 0
                /\ openLog = {}
                /\ openLog' \subseteq
                       {derive_nonce(IvBytes(prf, ks.server_write_iv), 0)}
                /\ ks'.kind = "application"
                /\ UNCHANGED <<sealLog, sent>>]_vars

\* C26's case: the first record after the handshake was opened with the
\* application schedule.
C26_Witness ==
    /\ pc = "done"
    /\ ks.kind = "application"
    /\ ks.read_seq_num = 1
    /\ openLog = {derive_nonce(IvBytes(prf, ks.server_write_iv), 0)}

\* The signing oracle's invocations on a CertificateVerify input.
CertVerifySignings ==
    LET IsCv(e) == e.msg[1] = "signing_input"
    IN  SelectSeq(signLog, IsCv)

C29_TransportFailureFatalToConnectionOnly ==
    \A i \in 1 .. Len(conns) :
        conns[i].res = "transport" =>
            /\ iss.pc /= "dead"
            /\ \A j \in i + 1 .. Len(conns) :
                   conns[j].state \notin {"refused", "reset"}

\* C30, under SchedSpec: a call of update_handshake_secret in which the
\* X25519 agreement fails returns an error, has taken the private key out of
\* the schedule, and changes nothing else: handshake_secret, both handshake
\* traffic secrets, both write keys and both write IVs are empty afterwards,
\* and the sequence counters and the transcript are what they were.
C30_FailedAgreementSetsNothing ==
    [][(pc = "api" /\ agreements' = agreements + 1 /\ lastRes' = "err") =>
          /\ ks.my_private_key
          /\ ~ks'.my_private_key
          /\ ks' = [ks EXCEPT !.my_private_key = FALSE]
          /\ ks'.handshake_secret = Empty
          /\ ks'.server_handshake_traffic_secret = Empty
          /\ ks'.client_handshake_traffic_secret = Empty
          /\ ks'.server_write_key = Empty
          /\ ks'.server_write_iv = Empty
          /\ ks'.client_write_key = Empty
          /\ ks'.client_write_iv = Empty
          /\ ks'.read_seq_num = ks.read_seq_num
          /\ ks'.write_seq_num = ks.write_seq_num
          /\ ks'.transcript = ks.transcript]_vars

\* C30's case: the agreement failed on a schedule whose read counter had
\* already been moved by a call made before the keys were there.
C30_Witness ==
    /\ pc = "api"
    /\ agreements = 1
    /\ lastRes = "err"
    /\ ~ks.my_private_key
    /\ ks.handshake_secret = Empty
    /\ ks.server_write_key = Empty
    /\ ks.read_seq_num = 1

\* C31, under Spec: at most one sign operation is in progress on the signing
\* oracle at any time, and one is in progress only while the client waits
\* for the signature of the CSR or of the CertificateVerify input; a sign
\* operation begins only when none is in progress; the oracle is invoked at
\* most twice, first for the request info of the CSR and then, only after
\* that invocation has returned a signature, at most once for a
\* CertificateVerify input.
C31_SignOperationsSequential ==
    /\ [](/\ signing \in {0, 1}
          /\ signing = 1 <=> pc \in {"try_sign_csr", "send_cert_verify"}
          /\ Len(signLog) <= 2
          /\ Len(signLog) >= 1 => signLog[1].msg = ClientCertReqInfo
          /\ Len(signLog) = 2 => /\ signLog[1].ok
                                 /\ signLog[2].msg[1] = "signing_input"
          /\ pc = "send_cert_verify" => Len(signLog) = 1)
    /\ [][/\ signing' > signing => signing = 0 /\ signing' = 1
          /\ Len(signLog') > Len(signLog) =>
                /\ Len(signLog') = Len(signLog) + 1
                /\ signing = 1
                /\ signing' = 0]_vars

\* C31's case: the CSR's signature has been returned and the sign operation
\* for the CertificateVerify input is in progress.
C31_Witness ==
    /\ pc = "send_cert_verify"
    /\ signing = 1
    /\ Len(signLog) = 1
    /\ signLog[1].ok
    /\ Len(sent) = 2

\* C32 (as stated), under SchedSpec: every call of decrypt_tls_encrypted that
\* returns, with a plaintext or with an error, has increased read_seq_num by
\* exactly 1 and changed nothing else of the schedule, and every call of
\* encrypt_tls_plaintext that returns has increased write_seq_num by exactly
\* 1 and changed nothing else: the other counter, the keys, the IVs, the
\* secrets and the transcript are what they were.
C32_CallsAdvanceOwnCounterOnly ==
    [][/\ (ApiDecrypt /\ lastRes' \in {"ok", "err"}) =>
              ks' = [ks EXCEPT !.read_seq_num = ks.read_seq_num + 1]
       /\ (ApiEncrypt /\ lastRes' \in {"ok", "err"}) =>
              ks' = [ks EXCEPT !.write_seq_num = ks.write_seq_num + 1]]_vars

\* The driver positions after the server flight has been opened.
AfterFlightOpened ==
    {"parse_extensions", "process_server_cert", "process_finished",
     "send_client_cert", "cert_verify_input", "send_cert_verify",
     "send_client_finished", "send_finished_message", "into_application",
     "established", "done"}

\* C33, under Spec: nothing is opened while the read key is empty and
\* nothing is sealed while the write key is empty: on every schedule the
\* client reaches with an empty write key encrypt_tls_plaintext returns an
\* error without sealing, and a call of decrypt_tls_encrypted made with an
\* empty read key returns an error without opening, which ends the
\* handshake.  So as long as update_handshake_secret has not been invoked,
\* both keys are empty, the server flight has not been opened, nothing but
\* the ClientHello in the clear has been sent and the schedule is not an
\* application schedule.
C33_NothingUnderEmptyKey ==
    /\ [](/\ ks.server_write_key = Empty => openLog = {}
          /\ ks.client_write_key = Empty =>
                /\ sealLog = {}
                /\ \A pt \in AppPts :
                      LET r == encrypt_tls_plaintext(ks, prf, build,
                                   Hdr(CtApplicationData, Tls12, ByteLen(pt) + TagLen), pt)
                      IN  r.res = "err" /\ ~r.aead /\ r.ct = Empty
          /\ agreements = 0 =>
                /\ ks.server_write_key = Empty
                /\ ks.client_write_key = Empty
                /\ ks.kind = "handshake"
                /\ pc \notin AfterFlightOpened
                /\ Len(sent) <= 1
                /\ \A i \in 1 .. Len(sent) : sent[i].hdr[2] = CtHandshake)
    /\ [][(ks.server_write_key = Empty /\ ks'.read_seq_num /= ks.read_seq_num) =>
              /\ lastRes' = "err"
              /\ pc' = "failed"
              /\ openLog' = {}
              /\ ks' = [ks EXCEPT !.read_seq_num = ks.read_seq_num + 1]]_vars

\* C33's case: the ServerHello's first extension was no key_share, so that
\* update_handshake_secret was not invoked; the ChangeCipherSpec and the
\* server flight were read, and the call to open the flight returned an
\* error.
C33_Witness ==
    /\ pc = "failed"
    /\ agreements = 0
    /\ Len(rcvd) = 3
    /\ lastRes = "err"
    /\ fault = "aead"
    /\ ks.read_seq_num = 1
    /\ Len(sent) = 1

C34_WitnessNoRequest ==
    /\ pc = "established"
    /\ ~cert_requested
    /\ Len(sent) = 2
    /\ ks.kind = "application"

\* C35, under EnrollSpec (the client process and the issuer thread scheduled
\* fairly; the other peers each write a whole request or close): the
\* client's get_client_cert returns; while it waits in read_to_end with its
\* end of the stream open, the issuer takes exactly the bytes the length
\* announces and closes; and when get_client_cert has returned, it returned
\* the issuer's bytes if they parse as a certificate, and otherwise an error,
\* as it did when nothing was written or the connection was refused or
\* reset.
C35_EnrollmentTerminates ==
    /\ <>(pc \in {"enroll_ok", "enroll_err"})
    /\ [](pc = "enroll_read" => conns[stream].client_open)
    /\ [](pc = "enroll_ok" =>
            /\ conns[stream].state = "closed"
            /\ conns[stream].client_open
            /\ conns[stream].c2s = << >>
            /\ Certificate_from_der(conns[stream].s2c)
            /\ client_cert = conns[stream].s2c)
    /\ [](pc = "enroll_err" =>
            /\ client_cert = << >>
            /\ \/ conns[stream].state \in {"refused", "reset", "aborted"}
               \/ /\ conns[stream].state = "closed"
                  /\ ~Certificate_from_der(conns[stream].s2c))

\* C35's case: another peer was served first, then the issuer read the
\* client's request, failed to build a certificate and closed, and the
\* client's read_to_end returned nothing.
C35_Witness ==
    /\ pc = "enroll_err"
    /\ stream = 2
    /\ conns[stream].state = "closed"
    /\ conns[stream].res = "sign_error"
    /\ conns[stream].s2c = << >>
    /\ conns[stream].req = Request(ClientCsr)

\* C35's other case: the certificate came back.
C35_WitnessIssued ==
    /\ pc = "enroll_ok"
    /\ conns[stream].res = "issued"
    /\ client_cert = sign_csr(ClientCsr, TRUE).der

\* The request csr with its signature made by the key it carries, and
\* whether csr's own signature was.
SelfSigned(csr) == <<CertReq(csr[1][2][2], csr[1][2][3], csr[1][2][3], csr[1][4])>>
SignatureValid(csr) == csr[1][3] = csr[1][2][3]

\* C36, under IssuerSpec: for every request a peer has written that parses
\* as a CertificationRequest, sign_csr returns a certificate whenever its
\* steps after the parse succeed, whether or not the request's signature
\* was made with the key it carries, and what it returns is what it returns
\* for the same request signed with that key; and what the issuer has
\* written on a connection it has finished with is that result.
C36_IssuanceIgnoresCsrSignature ==
    \A i \in 1 .. Len(conns) :
        LET c == conns[i]
            csr == RequestCsr(c)
        IN  (Len(c.req) > 1 /\ CertReq_from_der(csr).ok) =>
                /\ \A built \in BOOLEAN :
                       /\ sign_csr(csr, built).ok = built
                       /\ sign_csr(csr, built) = sign_csr(SelfSigned(csr), built)
                /\ c.state = "closed" =>
                       /\ c.res \in {"issued", "sign_error"}
                       /\ c.s2c = sign_csr(SelfSigned(csr), c.res = "issued").der
                       /\ c.res = "issued" => Certificate_from_der(c.s2c)

\* C36's case: a certificate was issued for a request whose signature was
\* not made with the key the request carries.
C36_Witness ==
    \E i \in 1 .. Len(conns) :
        /\ conns[i].state = "closed"
        /\ conns[i].res = "issued"
        /\ Len(conns[i].req) > 1
        /\ CertReq_from_der(RequestCsr(conns[i])).ok
        /\ ~SignatureValid(RequestCsr(conns[i]))
        /\ Certificate_from_der(conns[i].s2c)
        /\ conns[i].s2c[1][4] = TpmKey

=============================================================================
